---- MODULE Spec2Model ----
(***************************************************************************)
(* Model of the Coffeefy front end: the generic HTTP helper (lib/api.ts)   *)
(* and the auth session provider (context/auth-context.tsx) with the login *)
(* and register pages that call it.                                        *)
(*                                                                         *)
(* JavaScript values are tagged records so that values of different JS     *)
(* types can be compared: Undefined, Null, Str(s), Num(n), Bool(b) and     *)
(* Obj(f), f a function from property names to JavaScript values.  URLs    *)
(* and paths are sequences of one-character strings, because the helper    *)
(* inspects their first and last characters.                               *)
(***************************************************************************)
EXTENDS Integers, Sequences, FiniteSets, TLC

VARIABLES
  API_BASE_URL,  \* lib/api.ts: the module constant, fixed when the bundle loads
  call,          \* the arguments and the server response of the last apiFetch call
  result,        \* what that call built (url, init) and how its promise settled
  hydrated,      \* AuthProvider: the mount effect has run
  loading,       \* AuthProvider state
  error,         \* AuthProvider state
  tokens,        \* AuthProvider state
  user,          \* AuthProvider state
  storage,       \* localStorage["coffeefy-auth"], Null when the key is absent
  router,        \* the destinations handed to router.push since the page loaded
  pc,            \* the request login/register is waiting for, or "idle"
  caller,        \* "login": login was called by the page; "register": by register
  payload,       \* the credentials / register payload of the call in progress
  tokenResponse, \* login's local: the tokens the token request returned
  localError,    \* LoginPage / RegisterPage state
  users,         \* the backend's accounts: the role of each registered username
  ordersPage,    \* OrdersOperationsPage: its state hooks and pollRef
  timers,        \* window: the interval timers that are set and not cleared
  inflight,      \* the requests of the pages that the backend has not answered
  requestsSent,  \* how many requests the pages have sent so far
  orderStatus,   \* the backend's orders: the status of each order
  catalog,       \* ClientWalletPage: the catalog of a local, as it was loaded
  groups,        \* ClientWalletPage: the groups rendered for that catalog
  catalogPage,   \* CatalogPage: its state hooks
  visibleProducts, \* CatalogPage: the memo visibleProducts of the last render
  backend,       \* the backend's locals, categories and products
  loyaltyPage,   \* LoyaltyDashboardPage: its state hooks
  dashboard,     \* DashboardLayout and DashboardPage: what they rendered
  walletPage,    \* ClientWalletPage: its state hooks
  localPage      \* LocalDashboardPage: its forms and what it sent

apiVars == <<API_BASE_URL, call, result>>
authVars == <<hydrated, loading, error, tokens, user, storage, router, pc,
              caller, payload, tokenResponse, localError, users>>
ordersVars == <<ordersPage, timers, inflight, requestsSent, orderStatus>>
walletVars == <<catalog, groups>>
catalogVars == <<catalogPage, visibleProducts, backend>>
\* the dashboard shell, the wallet page and the profile of the local
panelVars == <<dashboard, walletPage, localPage>>
pageVars == <<ordersVars, walletVars, catalogVars, loyaltyPage, panelVars>>
\* the variables of the pages other than the orders console
offOrders == <<walletVars, catalogVars, loyaltyPage, panelVars>>
\* those other than the orders console and the catalog page
offCatalog == <<walletVars, loyaltyPage, panelVars>>
\* those other than the orders console and the loyalty page
offLoyalty == <<walletVars, catalogVars, panelVars>>
vars == <<API_BASE_URL, call, result, hydrated, loading, error, tokens, user,
          storage, router, pc, caller, payload, tokenResponse, localError,
          users, ordersPage, timers, inflight, requestsSent, orderStatus,
          catalog, groups, catalogPage, visibleProducts, backend,
          loyaltyPage, dashboard, walletPage, localPage>>

-----------------------------------------------------------------------------
(* JavaScript values *)

Undefined == [t |-> "undefined"]
Null == [t |-> "null"]
Str(s) == [str |-> s]
Num(n) == [num |-> n]
Bool(b) == [bool |-> b]
Obj(f) == [obj |-> f]

IsObj(v) == DOMAIN v = {"obj"}

\* JavaScript truthiness, as used by `if (options.token)`, `if (stored)`,
\* `err.details ?`, `response.statusText ||`
Truthy(v) == v \notin {Undefined, Null, Str(""), Num(0), Bool(FALSE)}

\* a ?? b
Coalesce(a, b) == IF a \in {Undefined, Null} THEN b ELSE a

\* v.key for a v that is neither null nor undefined (reading a property of a
\* primitive yields undefined)
Get(v, key) ==
  IF IsObj(v) /\ key \in DOMAIN v.obj THEN v.obj[key] ELSE Undefined

\* { ...a, ...b } on property maps
Merge(a, b) ==
  [k \in DOMAIN a \cup DOMAIN b |-> IF k \in DOMAIN b THEN b[k] ELSE a[k]]

\* o[key] = value on a property map
Put(o, key, value) ==
  [k \in DOMAIN o \cup {key} |-> IF k = key THEN value ELSE o[k]]

-----------------------------------------------------------------------------
(* JSON.stringify / JSON.parse *)

\* What survives serialisation: properties whose value is undefined are
\* dropped from objects, at every depth.
RECURSIVE JSONvalue(_)
JSONvalue(v) ==
  IF IsObj(v)
  THEN Obj([k \in {j \in DOMAIN v.obj : v.obj[j] # Undefined} |->
              JSONvalue(v.obj[k])])
  ELSE v

\* The text JSON.stringify(v) returns for v # undefined.
JSONstringify(v) == [jsontext |-> JSONvalue(v)]

\* A text that is not JSON.
NotJson(s) == [rawtext |-> s]

IsJsonText(s) == DOMAIN s = {"jsontext"}

\* JSON.parse(s): the value, or a SyntaxError
JSONparse(s) ==
  IF IsJsonText(s)
  THEN [threw |-> "none", value |-> s.jsontext]
  ELSE [threw |-> "SyntaxError"]

-----------------------------------------------------------------------------
(* Character strings *)

\* "http"
HTTP == <<"h", "t", "t", "p">>

\* s.startsWith(prefix)
StartsWith(s, prefix) ==
  /\ Len(s) >= Len(prefix)
  /\ SubSeq(s, 1, Len(prefix)) = prefix

\* s.replace(/\/$/, ""): one trailing slash is removed
StripTrailingSlash(s) ==
  IF Len(s) > 0 /\ s[Len(s)] = "/" THEN SubSeq(s, 1, Len(s) - 1) ELSE s

\* ResolveUrl with the base taken as it is
ResolveUrlKeepsSlash(base, path) ==
  IF StartsWith(path, HTTP)
  THEN path
  ELSE base \o (IF StartsWith(path, <<"/">>) THEN <<>> ELSE <<"/">>) \o path

\* lib/api.ts:27-31
ResolveUrl(base, path) ==
  IF StartsWith(path, HTTP)
  THEN path
  ELSE StripTrailingSlash(base)
         \o (IF StartsWith(path, <<"/">>) THEN <<>> ELSE <<"/">>)
         \o path

\* s.trim(), for the white space the model uses
RECURSIVE Trim(_)
Trim(s) ==
  IF s = <<>> THEN s
  ELSE IF Head(s) = " " THEN Trim(Tail(s))
  ELSE IF s[Len(s)] = " " THEN Trim(SubSeq(s, 1, Len(s) - 1))
  ELSE s

\* the capital letters the model uses, with their lower case
Capitals == [A |-> "a", L |-> "l", O |-> "o"]

\* s.toLowerCase()
ToLowerCase(s) ==
  [i \in DOMAIN s |-> IF s[i] \in DOMAIN Capitals THEN Capitals[s[i]]
                      ELSE s[i]]

\* s.includes(t)
Includes(s, t) ==
  \E i \in 0..(Len(s) - Len(t)) : SubSeq(s, i + 1, i + Len(t)) = t

\* the characters the model uses, in collation order
Letters == <<" ", "a", "c", "e", "f", "h", "l", "m", "o", "t">>

Weight(c) ==
  CHOOSE k \in DOMAIN Letters : <<Letters[k]>> = ToLowerCase(<<c>>)

\* a.localeCompare(b) at the first level: letters, whatever their case
RECURSIVE ComparePrimary(_, _)
ComparePrimary(a, b) ==
  IF a = <<>> /\ b = <<>> THEN 0
  ELSE IF a = <<>> THEN -1
  ELSE IF b = <<>> THEN 1
  ELSE IF Weight(Head(a)) < Weight(Head(b)) THEN -1
  ELSE IF Weight(Head(a)) > Weight(Head(b)) THEN 1
  ELSE ComparePrimary(Tail(a), Tail(b))

\* a.localeCompare(b) between strings with the same letters: at the first
\* difference the lower case comes first
RECURSIVE CompareCase(_, _)
CompareCase(a, b) ==
  IF a = <<>> \/ b = <<>> THEN 0
  ELSE IF Head(a) = Head(b) THEN CompareCase(Tail(a), Tail(b))
  ELSE IF Head(a) \in DOMAIN Capitals THEN 1
  ELSE -1

\* a.localeCompare(b): negative, zero or positive
localeCompare(a, b) ==
  IF ComparePrimary(a, b) # 0 THEN ComparePrimary(a, b)
  ELSE CompareCase(a, b)

-----------------------------------------------------------------------------
(* The fetch Response, as far as the helper uses it *)

\* The body of a response: JSON text, text that is not JSON, or nothing.
JsonBody(v) == [kind |-> "json", value |-> v]
TextBody(s) == [kind |-> "text", text |-> s]
EmptyBody == [kind |-> "empty"]

\* Response.ok is true for a status in 200..299.
MkResponse(status, statusText, body) ==
  [ok |-> status \in 200..299, status |-> status, statusText |-> statusText,
   body |-> body, bodyUsed |-> FALSE]

\* fetch() itself rejects (no connection, CORS): a TypeError
NetworkFailure == [t |-> "networkfailure"]

\* response.json(): a body can be consumed once; the read consumes it
\* before the text is parsed.
ResponseJson(r) ==
  IF r.bodyUsed
  THEN [threw |-> "TypeError", response |-> r]
  ELSE LET used == [r EXCEPT !.bodyUsed = TRUE] IN
       IF r.body.kind = "json"
       THEN [threw |-> "none", value |-> r.body.value, response |-> used]
       ELSE [threw |-> "SyntaxError", response |-> used]

\* response.text()
ResponseText(r) ==
  IF r.bodyUsed
  THEN [threw |-> "TypeError", response |-> r]
  ELSE [threw |-> "none",
        value |-> CASE r.body.kind = "json" -> JSONstringify(r.body.value)
                    [] r.body.kind = "text" -> Str(r.body.text)
                    [] OTHER -> Str(""),
        response |-> [r EXCEPT !.bodyUsed = TRUE]]

-----------------------------------------------------------------------------
(* lib/api.ts *)

\* new ApiError(message, status, details)
ApiError(message, status, details) ==
  [name |-> "ApiError", message |-> message, status |-> status,
   details |-> details]

\* an error thrown by the platform
PlatformError(name) == [name |-> name]

Resolved(value, response) ==
  [kind |-> "resolve", value |-> value, response |-> response]
Rejected(err, response) ==
  [kind |-> "reject", error |-> err, response |-> response]

\* lib/api.ts:54-66, the branch for a response that is not ok
RejectNotOk(response) ==
  LET first == ResponseJson(response)
      second == ResponseText(first.response)
      message == IF Truthy(Str(response.statusText))
                 THEN response.statusText ELSE "Solicitud fallida"
  IN  IF first.threw = "none"
      THEN Rejected(ApiError(message, response.status, first.value),
                    first.response)
      ELSE IF second.threw = "none"
      THEN Rejected(ApiError(message, response.status, second.value),
                    second.response)
      ELSE Rejected(PlatformError(second.threw), second.response)

\* RequestInit with options.headers spread after the token header is set
RequestInitHeadersLast(options) ==
  LET headers0 == [k \in {"Accept"} |-> "application/json"]
      headers1 == IF Truthy(options.token)
                  THEN Put(headers0, "Authorization",
                           "Bearer " \o options.token.str)
                  ELSE headers0
      headers2 == Merge(headers1,
                        IF options.headers = Undefined
                        THEN <<>> ELSE options.headers.obj)
      headers3 == IF options.body # Undefined
                  THEN Put(headers2, "Content-Type", "application/json")
                  ELSE headers2
  IN  [method |-> Coalesce(options.method, Str("GET")),
       headers |-> headers3,
       credentials |-> "include",
       body |-> IF options.body # Undefined
                THEN JSONstringify(options.body) ELSE Undefined]

\* RequestInit with `if (options.body)` in place of `!== undefined`
RequestInitTruthyBody(options) ==
  LET headers0 == Merge([k \in {"Accept"} |-> "application/json"],
                        IF options.headers = Undefined
                        THEN <<>> ELSE options.headers.obj)
      headers1 == IF Truthy(options.token)
                  THEN Put(headers0, "Authorization",
                           "Bearer " \o options.token.str)
                  ELSE headers0
      headers2 == IF Truthy(options.body)
                  THEN Put(headers1, "Content-Type", "application/json")
                  ELSE headers1
  IN  [method |-> Coalesce(options.method, Str("GET")),
       headers |-> headers2,
       credentials |-> "include",
       body |-> IF Truthy(options.body)
                THEN JSONstringify(options.body) ELSE Undefined]

\* lib/api.ts:32-50, the request the helper hands to fetch
RequestInit(options) ==
  LET headers0 == Merge([k \in {"Accept"} |-> "application/json"],
                        IF options.headers = Undefined
                        THEN <<>> ELSE options.headers.obj)
      headers1 == IF Truthy(options.token)
                  THEN Put(headers0, "Authorization",
                           "Bearer " \o options.token.str)
                  ELSE headers0
      headers2 == IF options.body # Undefined
                  THEN Put(headers1, "Content-Type", "application/json")
                  ELSE headers1
  IN  [method |-> Coalesce(options.method, Str("GET")),
       headers |-> headers2,
       credentials |-> "include",
       body |-> IF options.body # Undefined
                THEN JSONstringify(options.body) ELSE Undefined]

\* lib/api.ts:23-73
apiFetch(base, path, options, response) ==
  LET request == [url |-> ResolveUrl(base, path), init |-> RequestInit(options)]
      settled ==
        IF response = NetworkFailure
        THEN Rejected(PlatformError("TypeError"), response)
        ELSE IF ~response.ok
        THEN RejectNotOk(response)
        ELSE IF response.status = 204
        THEN Resolved(Undefined, response)
        ELSE LET parsed == ResponseJson(response) IN
             IF parsed.threw = "none"
             THEN Resolved(parsed.value, parsed.response)
             ELSE Rejected(PlatformError(parsed.threw), parsed.response)
  IN  [request |-> request, settled |-> settled]

-----------------------------------------------------------------------------
(* Inputs of the helper *)

MaxPathLen == 5
MaxBaseLen == 2

PathChars == {"/", "h", "t", "p"}
BaseChars == {"/", "b"}

Paths == UNION {[1..n -> PathChars] : n \in 0..MaxPathLen}
Bases == UNION {[1..n -> BaseChars] : n \in 1..MaxBaseLen}

\* "b": stands for the default "http://localhost:8000" of lib/api.ts:2, a
\* base without a trailing slash
DefaultBase == <<"b">>

\* "/p"
SomePath == <<"/", "p">>

MethodOptions == {Undefined, Str("POST"), Str("PATCH")}
HeaderOptions ==
  {Undefined,
   Obj([k \in {"Authorization"} |-> "Basic abc"]),
   Obj([k \in {"Content-Type"} |-> "text/plain"]),
   Obj([k \in {"X-Trace"} |-> "1"])}
BodyOptions ==
  {Undefined, Null, Bool(FALSE), Num(0), Obj([username |-> Str("ana")])}
TokenOptions == {Undefined, Null, Str(""), Str("tokA")}

RequestOptions ==
  [method : MethodOptions, headers : HeaderOptions, body : BodyOptions,
   token : TokenOptions]

NoOptions ==
  [method |-> Undefined, headers |-> Undefined, body |-> Undefined,
   token |-> Undefined]

Bodies ==
  {JsonBody(Obj([detail |-> Str("x")])), JsonBody(Null), TextBody("<html>"),
   EmptyBody}

Responses ==
  {MkResponse(st, txt, b) :
     st \in {200, 201, 400, 401, 500}, txt \in {"", "Error"}, b \in Bodies}
  \cup {MkResponse(204, txt, EmptyBody) : txt \in {"", "No Content"}}
  \cup {NetworkFailure}

NoCall == [t |-> "nocall"]

\* a call of apiFetch whose path varies
CallPath ==
  /\ call = NoCall
  /\ \E path \in Paths :
    LET response == MkResponse(200, "", JsonBody(Null)) IN
    /\ call' = [path |-> path, options |-> NoOptions, response |-> response]
    /\ result' = apiFetch(API_BASE_URL, path, NoOptions, response)
    /\ UNCHANGED API_BASE_URL
    /\ UNCHANGED authVars
    /\ UNCHANGED pageVars

\* a call of apiFetch whose options and response vary
CallOptions ==
  /\ call = NoCall
  /\ \E options \in RequestOptions, response \in Responses :
    /\ call' = [path |-> SomePath, options |-> options, response |-> response]
    /\ result' = apiFetch(API_BASE_URL, SomePath, options, response)
    /\ UNCHANGED API_BASE_URL
    /\ UNCHANGED authVars
    /\ UNCHANGED pageVars


-----------------------------------------------------------------------------
(* context/auth-context.tsx: the session provider *)

\* bound on the router.push calls followed between two page loads
MaxPushes == 2

\* "/api/token/" and "/api/users/"
TokenPath == <<"/", "a", "p", "i", "/", "t", "o", "k", "e", "n", "/">>
UsersPath == <<"/", "a", "p", "i", "/", "u", "s", "e", "r", "s", "/">>

Usernames == {"ana", "bob"}
Passwords == {"pw1", "pw2"}
Roles == {Str("cliente"), Str("cafeteria")}

\* a request that has been sent and not answered yet
Pending == [t |-> "pending"]

\* const snapshot = { tokens, user }; JSON.stringify(snapshot)
Snapshot(nextTokens, nextUser) ==
  JSONstringify(Obj([tokens |-> nextTokens, user |-> nextUser]))

\* persist writing the user held in state in place of its argument
persistStateUser(nextTokens, nextUser) ==
  IF ~Truthy(nextTokens) THEN Null ELSE Snapshot(nextTokens, user)

\* auth-context.tsx:76-90 persist: the value the storage key holds afterwards
persist(nextTokens, nextUser) ==
  IF ~Truthy(nextTokens) THEN Null ELSE Snapshot(nextTokens, nextUser)

\* if (stored): getItem returns null for an absent key, and "" is falsy
StoredTruthy(stored) == stored # Null /\ stored # NotJson("")

\* auth-context.tsx:207 accessToken: tokens?.access ?? null
accessToken ==
  IF tokens \in {Null, Undefined} THEN Null
  ELSE Coalesce(Get(tokens, "access"), Null)

\* the tokens the backend issues to a user
TokensFor(username) ==
  Obj([access |-> Str("access-" \o username),
       refresh |-> Str("refresh-" \o username)])

\* a JSON array
Arr(items) == [arr |-> items]

\* data.find((item) => item.username === username)
RECURSIVE Find(_, _)
Find(items, username) ==
  IF items = <<>> THEN Undefined
  ELSE IF Get(Head(items), "username") = Str(username) THEN Head(items)
  ELSE Find(Tail(items), username)

\* LoginErrorMessage without the fallback text
LoginErrorMessageNoFallback(err) ==
  IF err.name = "ApiError"
  THEN IF Truthy(err.details) THEN JSONstringify(err.details) ELSE Null
  ELSE Str("No se pudo iniciar sesion, intentalo nuevamente.")

\* the message login stores in error (auth-context.tsx:153-160)
LoginErrorMessage(err) ==
  IF err.name = "ApiError"
  THEN IF Truthy(err.details) THEN JSONstringify(err.details)
       ELSE Str("Credenciales invalidas")
  ELSE Str("No se pudo iniciar sesion, intentalo nuevamente.")

\* the message register stores in error (auth-context.tsx:184-193)
RegisterErrorMessage(err) ==
  IF err.name = "ApiError"
  THEN IF Truthy(err.details) THEN JSONstringify(err.details)
       ELSE Str("No se pudo registrar el usuario.")
  ELSE Str("Ocurrio un error inesperado durante el registro.")

\* the message the page shows when the call it awaited threw
\* (login page 20-24, register page 32-38)
PageErrorMessage(who) ==
  IF who = "register"
  THEN Str("No pudimos crear tu cuenta. Revisa los datos y vuelve a intentar.")
  ELSE Str("Credenciales invalidas. Verifica e intentalo nuevamente.")

\* auth-context.tsx:150-151
Destination(targetRole) ==
  IF targetRole = Str("cliente")
  THEN <<"/", "c", "l", "i", "e", "n", "t", "e">>
  ELSE <<"/", "d", "a", "s", "h", "b", "o", "a", "r", "d">>

Home == <<"/">>

-----------------------------------------------------------------------------
(* The backend, as far as the provider's requests see it *)

ErrorDetail == Obj([detail |-> Str("rejected")])

\* answers to POST /api/token/: tokens only for a registered user
TokenResponses(username) ==
  (IF users[username] # Undefined
   THEN {MkResponse(200, "OK", JsonBody(TokensFor(username)))} ELSE {})
  \cup {MkResponse(401, "Unauthorized", JsonBody(ErrorDetail)),
        MkResponse(401, "", JsonBody(Null)),
        MkResponse(500, "", TextBody("<html>")),
        NetworkFailure}

\* the entry of GET /api/users/ for a registered user
UserItem(username) ==
  Obj([username |-> Str(username), role |-> users[username]])

\* answers to GET /api/users/: the list may or may not contain the caller,
\* and an entry may come without a role (role?: string)
UsersResponses(username) ==
  LET others == {u \in Usernames : u # username /\ users[u] # Undefined}
      lists == {<<>>, <<UserItem(username)>>,
                <<Obj([username |-> Str(username)])>>}
               \cup {<<UserItem(o)>> : o \in others}
               \cup {<<UserItem(o), UserItem(username)>> : o \in others}
  IN  {MkResponse(200, "OK", JsonBody(Arr(l))) : l \in lists}
      \cup {MkResponse(403, "Forbidden", JsonBody(ErrorDetail)),
            NetworkFailure}

\* answers to POST /api/users/: created only when the username is free
CreateResponses(username) ==
  (IF users[username] = Undefined
   THEN {MkResponse(201, "Created",
                    JsonBody(Obj([username |-> Str(username)])))}
   ELSE {})
  \cup {MkResponse(400, "Bad Request", JsonBody(ErrorDetail)),
        MkResponse(500, "", TextBody("<html>")),
        NetworkFailure}

-----------------------------------------------------------------------------
(* Inputs of the pages *)

FormUsernames == Usernames \cup {""}
FormPasswords == Passwords \cup {""}
RoleInputs == Roles \cup {Undefined}
EmailInputs == {Undefined, Str("a@b.c")}

LoginForms == [username : FormUsernames, password : FormPasswords]
RegisterForms ==
  [username : FormUsernames, password : FormPasswords, email : EmailInputs,
   role : RoleInputs]

NoPayload == [t |-> "nopayload"]

\* the values the storage key can hold when the page loads: nothing, an empty
\* string, text that is not JSON, the JSON text null, JSON of another shape,
\* and snapshots
StoredValues ==
  {Null, NotJson(""), NotJson("{oops"), JSONstringify(Null),
   JSONstringify(Obj([user |-> Obj([username |-> Str("ana")])])),
   Snapshot(TokensFor("ana"), Obj([username |-> Str("ana")])),
   Snapshot(TokensFor("ana"),
            Obj([username |-> Str("ana"), role |-> Str("cliente")]))}

-----------------------------------------------------------------------------
(* AuthProvider *)

\* auth-context.tsx:56-59 and the pages' useState: a freshly loaded page
Mounted ==
  /\ hydrated = FALSE
  /\ loading = TRUE
  /\ error = Null
  /\ tokens = Null
  /\ user = Null
  /\ router = <<>>
  /\ pc = "idle"
  /\ caller = "none"
  /\ payload = NoPayload
  /\ tokenResponse = Undefined
  /\ localError = Null
  /\ call = NoCall
  /\ result = NoCall

\* auth-context.tsx:61-74, the mount effect
Hydrate ==
  /\ ~hydrated
  /\ hydrated' = TRUE
  /\ LET stored == storage
         parsed == JSONparse(stored)
     IN  IF ~StoredTruthy(stored)
         THEN UNCHANGED <<tokens, user, storage>>
         ELSE IF parsed.threw # "none" \/ parsed.value \in {Null, Undefined}
         THEN /\ storage' = Null
              /\ UNCHANGED <<tokens, user>>
         ELSE /\ tokens' = Get(parsed.value, "tokens")
              /\ user' = Get(parsed.value, "user")
              /\ UNCHANGED storage
  /\ loading' = FALSE
  /\ UNCHANGED <<error, router, pc, caller, payload, tokenResponse,
                 localError, users>>
  /\ UNCHANGED apiVars
  /\ UNCHANGED pageVars

\* Logout without the call of persist
LogoutKeepsStorage ==
  /\ hydrated
  /\ Len(router) + (IF pc = "idle" THEN 0 ELSE 1) < MaxPushes
  /\ tokens' = Null
  /\ user' = Null
  /\ router' = Append(router, Home)
  /\ UNCHANGED <<hydrated, loading, error, pc, caller, payload, tokenResponse,
                 localError, users, storage>>
  /\ UNCHANGED apiVars
  /\ UNCHANGED pageVars

\* auth-context.tsx:92-97
Logout ==
  /\ hydrated
  /\ Len(router) + (IF pc = "idle" THEN 0 ELSE 1) < MaxPushes
  /\ tokens' = Null
  /\ user' = Null
  /\ storage' = persist(Null, Null)
  /\ router' = Append(router, Home)
  /\ UNCHANGED <<hydrated, loading, error, pc, caller, payload, tokenResponse,
                 localError, users>>
  /\ UNCHANGED apiVars
  /\ UNCHANGED pageVars

\* the options of apiFetch("/api/token/", { method: "POST", body: credentials })
TokenRequestOptions(username, password) ==
  [NoOptions EXCEPT
     !.method = Str("POST"),
     !.body = Obj([username |-> Str(username), password |-> Str(password)])]

\* auth-context.tsx:127-134: login up to its first await
loginStart(username, password, who) ==
  /\ loading' = TRUE
  /\ error' = Null
  /\ pc' = "token"
  /\ caller' = who
  /\ call' = [path |-> TokenPath,
              options |-> TokenRequestOptions(username, password),
              response |-> Pending]
  /\ result' = NoCall

\* auth-context.tsx:153-164 followed by the catch of whoever awaited login:
\* register (184-197) and then its page, or the login page
loginThrow(err) ==
  /\ error' = IF caller = "register"
              THEN RegisterErrorMessage(err) ELSE LoginErrorMessage(err)
  /\ loading' = FALSE
  /\ localError' = PageErrorMessage(caller)
  /\ pc' = "idle"
  /\ caller' = "none"
  /\ payload' = NoPayload
  /\ tokenResponse' = Undefined

\* login page 12-25: handleSubmit
LoginSubmit ==
  /\ ~loading
  /\ Len(router) < MaxPushes
  /\ \E form \in LoginForms :
       IF form.username = "" \/ form.password = ""
       THEN /\ localError' = Str("Ingresa tu usuario y contrasena.")
            /\ error' = Null
            /\ UNCHANGED <<loading, pc, caller, payload, call, result>>
       ELSE /\ localError' = Null
            /\ loginStart(form.username, form.password, "login")
            /\ payload' = [username |-> form.username,
                           password |-> form.password,
                           email |-> Undefined, role |-> Undefined]
  /\ UNCHANGED <<hydrated, tokens, user, storage, router, tokenResponse,
                 users, API_BASE_URL>>
  /\ UNCHANGED pageVars

\* auth-context.tsx:136-145: the token request of login is answered
TokenSettle ==
  /\ pc = "token"
  /\ \E response \in TokenResponses(payload.username) :
       LET r == apiFetch(API_BASE_URL, call.path, call.options, response)
           baseUser == Obj([username |-> Str(payload.username)])
       IN  IF r.settled.kind = "resolve"
           THEN /\ tokens' = r.settled.value
                /\ user' = baseUser
                /\ storage' = persist(r.settled.value, baseUser)
                /\ tokenResponse' = r.settled.value
                /\ pc' = "profile"
                /\ call' = [path |-> UsersPath,
                            options |->
                              [NoOptions EXCEPT
                                 !.token = Get(r.settled.value, "access")],
                            response |-> Pending]
                /\ result' = NoCall
                /\ UNCHANGED <<loading, error, localError, caller, payload>>
           ELSE /\ loginThrow(r.settled.error)
                /\ call' = [call EXCEPT !.response = response]
                /\ result' = r
                /\ UNCHANGED <<tokens, user, storage>>
  /\ UNCHANGED <<hydrated, router, users, API_BASE_URL>>
  /\ UNCHANGED pageVars

\* auth-context.tsx:99-124: the profile loadUserProfile returns, given how
\* the request for the user list settled
loadUserProfile(settled, username) ==
  LET found == IF settled.kind = "resolve" /\ DOMAIN settled.value = {"arr"}
               THEN Find(settled.value.arr, username) ELSE Undefined
  IN  IF Truthy(found)
      THEN Obj([username |-> Get(found, "username"),
                role |-> Get(found, "role")])
      ELSE Null

\* auth-context.tsx:141-148
targetRoleOf(loadedProfile) ==
  IF loadedProfile # Null /\ Truthy(Get(loadedProfile, "role"))
  THEN Get(loadedProfile, "role") ELSE Undefined

\* auth-context.tsx:108-117 and 146-164: the user list request is answered
ProfileSettle ==
  /\ pc = "profile"
  /\ \E response \in UsersResponses(payload.username) :
       LET r == apiFetch(API_BASE_URL, call.path, call.options, response)
           loadedProfile == loadUserProfile(r.settled, payload.username)
       IN  /\ IF loadedProfile # Null
              THEN /\ user' = loadedProfile
                   /\ storage' = persist(tokenResponse, loadedProfile)
              ELSE UNCHANGED <<user, storage>>
           /\ router' = Append(router, Destination(targetRoleOf(loadedProfile)))
           /\ call' = [call EXCEPT !.response = response]
           /\ result' = r
  /\ loading' = FALSE
  /\ pc' = "idle"
  /\ caller' = "none"
  /\ payload' = NoPayload
  /\ tokenResponse' = Undefined
  /\ UNCHANGED <<hydrated, error, tokens, localError, users, API_BASE_URL>>
  /\ UNCHANGED pageVars

\* CreateRequestOptions with the role passed on as given
CreateRequestOptionsNoDefault(form) ==
  [NoOptions EXCEPT
     !.method = Str("POST"),
     !.body = Obj([username |-> Str(form.username),
                   password |-> Str(form.password),
                   email |-> form.email,
                   role |-> form.role])]

\* the options of apiFetch("/api/users/", { method: "POST", body: {...} })
CreateRequestOptions(form) ==
  [NoOptions EXCEPT
     !.method = Str("POST"),
     !.body = Obj([username |-> Str(form.username),
                   password |-> Str(form.password),
                   email |-> form.email,
                   role |-> Coalesce(form.role, Str("cliente"))])]

\* register page 24-39 handleSubmit, and auth-context.tsx:170-182
RegisterSubmit ==
  /\ ~loading
  /\ Len(router) < MaxPushes
  /\ \E form \in RegisterForms :
       IF form.username = "" \/ form.password = ""
       THEN /\ localError' = Str("Completa usuario y contrasena.")
            /\ error' = Null
            /\ UNCHANGED <<loading, pc, caller, payload, call, result>>
       ELSE /\ localError' = Null
            /\ error' = Null
            /\ loading' = TRUE
            /\ pc' = "create"
            /\ caller' = "register"
            /\ payload' = form
            /\ call' = [path |-> UsersPath,
                        options |-> CreateRequestOptions(form),
                        response |-> Pending]
            /\ result' = NoCall
  /\ UNCHANGED <<hydrated, tokens, user, storage, router, tokenResponse,
                 users, API_BASE_URL>>
  /\ UNCHANGED pageVars

\* auth-context.tsx:183-197: the creation request of register is answered
CreateSettle ==
  /\ pc = "create"
  /\ \E response \in CreateResponses(payload.username) :
       LET r == apiFetch(API_BASE_URL, call.path, call.options, response) IN
       IF r.settled.kind = "resolve"
       THEN /\ users' = [users EXCEPT
                           ![payload.username] = Get(call.options.body, "role")]
            /\ loginStart(payload.username, payload.password, "register")
            /\ UNCHANGED <<localError, payload, tokenResponse>>
       ELSE /\ error' = RegisterErrorMessage(r.settled.error)
            /\ loading' = FALSE
            /\ localError' = PageErrorMessage("register")
            /\ pc' = "idle"
            /\ caller' = "none"
            /\ payload' = NoPayload
            /\ call' = [call EXCEPT !.response = response]
            /\ result' = r
            /\ UNCHANGED <<users, tokenResponse>>
  /\ UNCHANGED <<hydrated, tokens, user, storage, router, API_BASE_URL>>
  /\ UNCHANGED pageVars

\* the browser loads the page again: memory is lost, the storage is kept
Reload ==
  /\ hydrated' = FALSE
  /\ loading' = TRUE
  /\ error' = Null
  /\ tokens' = Null
  /\ user' = Null
  /\ router' = <<>>
  /\ pc' = "idle"
  /\ caller' = "none"
  /\ payload' = NoPayload
  /\ tokenResponse' = Undefined
  /\ localError' = Null
  /\ call' = NoCall
  /\ result' = NoCall
  /\ UNCHANGED <<storage, users, API_BASE_URL>>
  /\ UNCHANGED pageVars

-----------------------------------------------------------------------------
(* OrdersOperationsPage, the orders console *)

\* part_001:210-211
REFRESH_INTERVAL_MS == 30000
DEFAULT_SINCE_MINUTES == 240

\* part_001:178-184, the values of ORDER_STATUSES
ORDER_STATUSES ==
  <<"pendiente", "preparando", "listo", "completado", "cancelado">>

\* NEXT_STATUS_OPTIONS with a completed order that can be reopened
NextStatusOptionsReopen ==
  [pendiente |-> <<"preparando", "cancelado">>,
   preparando |-> <<"listo", "cancelado">>,
   listo |-> <<"completado", "cancelado">>,
   completado |-> <<"pendiente">>,
   cancelado |-> <<>>]

\* part_001:202-208
NEXT_STATUS_OPTIONS ==
  [pendiente |-> <<"preparando", "cancelado">>,
   preparando |-> <<"listo", "cancelado">>,
   listo |-> <<"completado", "cancelado">>,
   completado |-> <<>>,
   cancelado |-> <<>>]

MaxInFlight == 2   \* requests that await their answer at the same time
MaxRequests == 5   \* requests a page sends in one run of the model
OrderIds == {1, 2}

\* the options of the three filter controls that the model exercises
LocalChoices == {Str("all"), Num(1)}
StatusChoices == {"active", "completado"}
SinceChoices == {60, DEFAULT_SINCE_MINUTES}

\* the sessions useAuth hands to a page: signed out, or one of two accounts
NoSession == [tokens |-> Null, user |-> Null]
SessionOf(username) ==
  [tokens |-> TokensFor(username), user |-> UserItem(username)]
Sessions == {NoSession} \cup {SessionOf(u) : u \in Usernames}

\* errors a request of a page can be rejected with
Failures ==
  {ApiError("Request failed", 400, Str("rechazado")),
   PlatformError("TypeError")}

\* the message the pages derive from a caught error:
\* err instanceof ApiError && err.details
\*   ? (typeof err.details === "string" ? err.details : fallback) : fallback
DetailsOrFallback(err, fallback) ==
  IF err.name = "ApiError" /\ Truthy(err.details)
  THEN IF DOMAIN err.details = {"str"} THEN err.details ELSE Str(fallback)
  ELSE Str(fallback)

RemoveAt(s, i) == SubSeq(s, 1, i - 1) \o SubSeq(s, i + 1, Len(s))

\* part_001:290-302, the hooks of a page instance before its first effects;
\* pollCleanup tells whether the last run of the polling effect returned a
\* cleanup function
OrdersInitialState ==
  [mounted |-> FALSE,
   locals |-> <<>>,
   selectedLocalId |-> Str("all"),
   statusFilter |-> "active",
   sinceMinutes |-> DEFAULT_SINCE_MINUTES,
   orders |-> [url |-> Null, rows |-> <<>>],
   summary |-> Null,
   loading |-> TRUE,
   refreshing |-> FALSE,
   error |-> Null,
   updatingOrderId |-> Null,
   pollRef |-> Null,
   pollCleanup |-> FALSE]

\* what a render captures for fetchData and the handlers
\* (the dependencies of useCallback, part_001:421)
Closure(p, token) ==
  [token |-> token,
   filters |-> [local |-> p.selectedLocalId, since |-> p.sinceMinutes,
                status |-> p.statusFilter]]

\* part_001:350-361
summaryUrl(filters) == [local |-> filters.local, since |-> filters.since]

\* part_001:363-376
ordersUrl(filters) ==
  [local |-> filters.local, since |-> filters.since, status |-> filters.status]

\* the backend's side of GET /api/orders/active/ and /api/orders/?status=
MatchesStatus(statusFilter, status) ==
  IF statusFilter = "active"
  THEN status \in {"pendiente", "preparando", "listo"}
  ELSE status = statusFilter

\* the answers of the backend to the two requests of fetchData
SummaryAnswer(url) == [url |-> url]
OrdersAnswer(url) ==
  [url |-> url,
   rows |-> [id \in {i \in OrderIds : MatchesStatus(url.status, orderStatus[i])}
               |-> orderStatus[id]]]

\* window.setInterval: the id of the new timer; an id that no timer and no
\* reference holds stands for an id never handed out before
NewTimerId(ts, ref) ==
  CHOOSE n \in 1..(Cardinality(ts) + 2) :
    /\ \A t \in ts : t.id # n
    /\ ref # Num(n)
    /\ \A m \in 1..(n - 1) : (\E t \in ts : t.id = m) \/ ref = Num(m)

\* window.clearInterval(id)
clearInterval(ts, id) == {t \in ts : Num(t.id) # id}

\* part_001:438-442, the cleanup of the polling effect
PollCleanup(ts, ref) == IF Truthy(ref) THEN clearInterval(ts, ref) ELSE ts

\* the polling effect written without clearInterval, in its body and in its
\* cleanup
PollEffectLeaks(ts, ref, c) ==
  IF ~Truthy(c.token)
  THEN [timers |-> ts, pollRef |-> ref, cleanup |-> FALSE]
  ELSE LET id == NewTimerId(ts, ref)
       IN  [timers |-> ts \cup {[id |-> id, ms |-> REFRESH_INTERVAL_MS,
                                closure |-> c]},
            pollRef |-> Num(id), cleanup |-> FALSE]

\* part_001:429-437, the body of the polling effect
PollEffect(ts, ref, c) ==
  IF ~Truthy(c.token)
  THEN [timers |-> ts, pollRef |-> ref, cleanup |-> FALSE]
  ELSE LET ts1 == IF Truthy(ref) THEN clearInterval(ts, ref) ELSE ts
           id == NewTimerId(ts1, ref)
       IN  [timers |-> ts1 \cup {[id |-> id, ms |-> REFRESH_INTERVAL_MS,
                                  closure |-> c]},
            pollRef |-> Num(id), cleanup |-> TRUE]

\* part_001:339-422, fetchData up to its await: the page after the calls of
\* setError, setLoading / setRefreshing, and the request pair it sends
fetchData(p, c, initial, after) ==
  IF ~Truthy(c.token)
  THEN [page |-> p, sent |-> <<>>]
  ELSE [page |-> [p EXCEPT !.error = Null,
                           !.loading = IF initial THEN TRUE ELSE @,
                           !.refreshing = IF initial THEN @ ELSE TRUE],
        sent |-> <<[kind |-> "fetch", filters |-> c.filters,
                    after |-> after]>>]

\* the effects that run after a render in which fetchData changed
\* (part_001:309-337 when the session changed too, 424-427, 429-443)
OrdersEffects(p, ts, fl, token, usr, sessionChanged) ==
  LET signedIn == Truthy(usr) /\ Truthy(token)
      ts1 == IF p.pollCleanup THEN PollCleanup(ts, p.pollRef) ELSE ts
      p1 == IF sessionChanged /\ ~signedIn THEN [p EXCEPT !.loading = FALSE]
            ELSE p
      sentLocals == IF sessionChanged /\ signedIn
                    THEN <<[kind |-> "locals"]>>
                    ELSE <<>>
      f == IF signedIn THEN fetchData(p1, Closure(p1, token), TRUE, "none")
           ELSE [page |-> p1, sent |-> <<>>]
      poll == PollEffect(ts1, p.pollRef, Closure(p1, token))
  IN  [page |-> [f.page EXCEPT !.pollRef = poll.pollRef,
                               !.pollCleanup = poll.cleanup],
       timers |-> poll.timers,
       inflight |-> fl \o sentLocals \o f.sent]

\* the requests sent in a step are counted, up to MaxRequests; before is the
\* number of requests that were in flight and stay so
Counted(before) ==
  /\ requestsSent' = requestsSent + (Len(inflight') - before)
  /\ requestsSent' <= MaxRequests

\* the page is rendered with its controls (part_001:489-511)
OrdersControls == ordersPage.mounted /\ Truthy(user) /\ ~ordersPage.loading

\* the page is mounted: first render and first run of the effects
OrdersMount ==
  /\ ~ordersPage.mounted
  /\ LET p0 == [OrdersInitialState EXCEPT !.mounted = TRUE]
         e == OrdersEffects(p0, timers, inflight, accessToken, user, TRUE)
     IN  /\ ordersPage' = e.page
         /\ timers' = e.timers
         /\ inflight' = e.inflight
  /\ Len(inflight') <= MaxInFlight
  /\ Counted(Len(inflight))
  /\ UNCHANGED <<orderStatus, apiVars, hydrated, loading, error, tokens, user,
                 storage, router, pc, caller, payload, tokenResponse,
                 localError, users>>
  /\ UNCHANGED offOrders

\* useAuth hands the page another session (login, logout or hydration in the
\* provider): user and accessToken change, every effect runs again
OrdersSession ==
  /\ \E s \in Sessions :
       /\ s.tokens # tokens
       /\ tokens' = s.tokens
       /\ user' = s.user
       /\ IF ordersPage.mounted
          THEN LET e == OrdersEffects(ordersPage, timers, inflight,
                                      Coalesce(Get(s.tokens, "access"), Null),
                                      s.user, TRUE)
               IN  /\ ordersPage' = e.page
                   /\ timers' = e.timers
                   /\ inflight' = e.inflight
          ELSE UNCHANGED <<ordersPage, timers, inflight>>
  /\ Len(inflight') <= MaxInFlight
  /\ Counted(Len(inflight))
  /\ UNCHANGED <<orderStatus, apiVars, hydrated, loading, error, storage,
                 router, pc, caller, payload, tokenResponse, localError,
                 users>>
  /\ UNCHANGED offOrders

\* a state setter of a filter was called with a value that differs: the page
\* renders again with a new fetchData
OrdersFilterChanged(p1) ==
  /\ LET e == OrdersEffects(p1, timers, inflight, accessToken, user, FALSE)
     IN  /\ ordersPage' = e.page
         /\ timers' = e.timers
         /\ inflight' = e.inflight
  /\ Len(inflight') <= MaxInFlight
  /\ Counted(Len(inflight))
  /\ UNCHANGED <<orderStatus, apiVars, authVars>>
  /\ UNCHANGED offOrders

\* part_001:547-563, the select of the local: "Todos" and the locals listed
SelectLocal ==
  /\ OrdersControls
  /\ \E value \in LocalChoices :
       /\ \/ value = Str("all")
          \/ \E i \in DOMAIN ordersPage.locals :
               value = Num(ordersPage.locals[i])
       /\ value # ordersPage.selectedLocalId
       /\ OrdersFilterChanged([ordersPage EXCEPT !.selectedLocalId = value])

\* part_001:565-577, the select of the time window
SelectSince ==
  /\ OrdersControls
  /\ \E value \in SinceChoices :
       /\ value # ordersPage.sinceMinutes
       /\ OrdersFilterChanged([ordersPage EXCEPT !.sinceMinutes = value])

\* part_001:651 and 664, the status filter buttons
SelectStatus ==
  /\ OrdersControls
  /\ \E value \in StatusChoices :
       /\ value # ordersPage.statusFilter
       /\ OrdersFilterChanged([ordersPage EXCEPT !.statusFilter = value])

\* a request leaves the page: fetchData called by a timer, by the refresh
\* button or by handleStatusUpdate
OrdersFetch(c, after, rest) ==
  LET f == fetchData(ordersPage, c, FALSE, after)
  IN  IF ordersPage.mounted
      THEN /\ ordersPage' = f.page
           /\ inflight' = rest \o f.sent
      ELSE UNCHANGED <<ordersPage, inflight>>

\* part_001:434-436, an interval timer fires
PollTick ==
  /\ \E t \in timers : OrdersFetch(t.closure, "none", inflight)
  /\ Len(inflight') <= MaxInFlight
  /\ Counted(Len(inflight))
  /\ UNCHANGED <<timers, orderStatus, apiVars, authVars>>
  /\ UNCHANGED offOrders

\* part_001:445-447 and 582-583, the refresh button
Refresh ==
  /\ OrdersControls
  /\ ~ordersPage.refreshing
  /\ OrdersFetch(Closure(ordersPage, accessToken), "none", inflight)
  /\ Len(inflight') <= MaxInFlight
  /\ Counted(Len(inflight))
  /\ UNCHANGED <<timers, orderStatus, apiVars, authVars>>
  /\ UNCHANGED offOrders

\* part_001:449-459 and 745-767: a status button of a displayed order
StatusUpdate ==
  /\ OrdersControls
  /\ Truthy(accessToken)
  /\ Len(inflight) < MaxInFlight
  /\ \E id \in DOMAIN ordersPage.orders.rows :
       LET shown == ordersPage.orders.rows[id]
           nextStatuses == NEXT_STATUS_OPTIONS[shown]
       IN  /\ ordersPage.updatingOrderId # Num(id)
           /\ \E k \in DOMAIN nextStatuses :
                /\ ordersPage' = [ordersPage EXCEPT
                                    !.updatingOrderId = Num(id),
                                    !.error = Null]
                /\ inflight' = Append(inflight,
                     [kind |-> "update", order |-> id,
                      shown |-> shown, status |-> nextStatuses[k],
                      closure |-> Closure(ordersPage, accessToken)])
  /\ Counted(Len(inflight))
  /\ UNCHANGED <<timers, orderStatus, apiVars, authVars>>
  /\ UNCHANGED offOrders

\* part_001:460-472: the status request is answered; the backend either
\* stores the new status or refuses
UpdateSettle ==
  /\ \E i \in DOMAIN inflight :
       LET r == inflight[i]
           rest == RemoveAt(inflight, i)
       IN  /\ r.kind = "update"
           /\ \/ /\ orderStatus' = [orderStatus EXCEPT ![r.order] = r.status]
                 /\ LET f == fetchData(ordersPage, r.closure, FALSE, "update")
                    IN  /\ ordersPage' = f.page
                        /\ inflight' = rest \o f.sent
              \/ /\ UNCHANGED orderStatus
                 /\ inflight' = rest
                 /\ \E err \in Failures :
                      ordersPage' = [ordersPage EXCEPT
                        !.error = DetailsOrFallback(err,
                                    "No pudimos actualizar el pedido."),
                        !.updatingOrderId = Null]
  /\ Counted(Len(inflight) - 1)
  /\ UNCHANGED <<timers, apiVars, authVars>>
  /\ UNCHANGED offOrders

\* part_001:378-419: the two requests of fetchData are answered
FetchSettle ==
  /\ \E i \in DOMAIN inflight :
       LET r == inflight[i]
           finally(p) ==
             [p EXCEPT !.loading = FALSE, !.refreshing = FALSE,
                       !.updatingOrderId =
                          IF r.after = "update" THEN Null ELSE @]
       IN  /\ r.kind = "fetch"
           /\ inflight' = RemoveAt(inflight, i)
           /\ \/ ordersPage' = finally([ordersPage EXCEPT
                   !.summary = SummaryAnswer(summaryUrl(r.filters)),
                   !.orders = OrdersAnswer(ordersUrl(r.filters))])
              \/ \E err \in Failures :
                   ordersPage' = finally([ordersPage EXCEPT
                     !.error = DetailsOrFallback(err,
                                 "No pudimos cargar los pedidos.")])
  /\ UNCHANGED <<requestsSent, timers, orderStatus, apiVars, authVars>>
  /\ UNCHANGED offOrders

\* answers to GET /api/locals/: the ids of the locals listed
LocalsResponses == {<<1>>, <<1, 2>>}

\* part_001:315-334: the locals request is answered
LocalsSettle ==
  /\ \E i \in DOMAIN inflight :
       LET r == inflight[i]
           rest == RemoveAt(inflight, i)
       IN  /\ r.kind = "locals"
           /\ \/ \E response \in LocalsResponses :
                   LET p1 == [ordersPage EXCEPT
                                !.locals = response,
                                !.selectedLocalId =
                                   IF Len(response) = 1
                                   THEN Num(response[1]) ELSE @]
                       e == OrdersEffects(p1, timers, rest, accessToken,
                                          user, FALSE)
                   IN  IF p1.selectedLocalId = ordersPage.selectedLocalId
                       THEN /\ ordersPage' = p1
                            /\ inflight' = rest
                            /\ UNCHANGED timers
                       ELSE /\ ordersPage' = e.page
                            /\ inflight' = e.inflight
                            /\ timers' = e.timers
              \/ /\ \E err \in Failures :
                      ordersPage' = [ordersPage EXCEPT
                        !.error = DetailsOrFallback(err,
                                    "No pudimos cargar los locales.")]
                 /\ inflight' = rest
                 /\ UNCHANGED timers
  /\ Len(inflight') <= MaxInFlight
  /\ Counted(Len(inflight) - 1)
  /\ UNCHANGED <<orderStatus, apiVars, authVars>>
  /\ UNCHANGED offOrders

\* the page is unmounted: the cleanups run and the instance is dropped, and
\* with it the continuations of its requests (a state setter of an unmounted
\* component does nothing)
OrdersUnmount ==
  /\ ordersPage.mounted
  /\ timers' = IF ordersPage.pollCleanup
               THEN PollCleanup(timers, ordersPage.pollRef) ELSE timers
  /\ ordersPage' = OrdersInitialState
  /\ inflight' = <<>>
  /\ UNCHANGED <<requestsSent, orderStatus, apiVars, authVars>>
  /\ UNCHANGED offOrders

\* the orders the backend holds when the model starts: order 1 has just been
\* placed, order 2 is ready or completed (the page itself brings an order
\* to the other statuses)
OrdersAtStart ==
  {[id \in OrderIds |-> IF id = 1 THEN "pendiente" ELSE status] :
     status \in {"listo", "completado"}}

\* the orders console before it is opened
OrdersClosed ==
  /\ ordersPage = OrdersInitialState
  /\ timers = {}
  /\ inflight = <<>>
  /\ requestsSent = 0

\* the orders console is not open
OrdersIdle ==
  /\ OrdersClosed
  /\ orderStatus = [id \in OrderIds |-> "pendiente"]

-----------------------------------------------------------------------------
(* ClientWalletPage: the catalog of a local grouped by category *)

MaxCatalogLen == 4   \* products in the catalog of a local

\* the categories of the backend: their names, two of them the same
CategoryNames == [c \in {1, 2, 3} |-> IF c = 2 THEN "Te" ELSE "Cafes"]

\* a product's category: none, or one of the backend's
CategoryChoices == {Null} \cup {Num(c) : c \in DOMAIN CategoryNames}

\* cliente/page.tsx:66-81, the fields of a CatalogProduct that the grouping
\* reads; a product without category comes with an empty category_name
CatalogProductOf(id, category) ==
  [id |-> id, category |-> category,
   category_name |-> IF category = Null THEN Str("")
                     ELSE Str(CategoryNames[category.num])]

\* the catalogs the backend answers with: products with distinct ids
Catalogs ==
  UNION {{[i \in 1..n |-> CatalogProductOf(i, cats[i])] :
            cats \in [1..n -> CategoryChoices]} : n \in 0..MaxCatalogLen}

\* the key of a product taken from its category name
MapKeyByName(product) == product.category_name

\* cliente/page.tsx:136-137
MapKey(product) ==
  LET key == Coalesce(product.category, Num(-1))
  IN  IF key = Num(-1) THEN Str("uncategorized") ELSE key

\* cliente/page.tsx:135-152, the callback of forEach applied to the products
\* from position i on; acc holds groups and indexByCategory
RECURSIVE GroupFrom(_, _, _)
GroupFrom(products, i, acc) ==
  IF i > Len(products) THEN acc
  ELSE
    LET product == products[i]
        mapKey == MapKey(product)
        known == mapKey \in DOMAIN acc.indexByCategory
        groupIndex == IF known THEN acc.indexByCategory[mapKey]
                      ELSE Len(acc.groups) + 1
        opened ==
          IF known THEN acc
          ELSE [groups |-> Append(acc.groups,
                  [categoryId |-> Coalesce(product.category, Null),
                   categoryName |->
                     IF Truthy(product.category_name)
                     THEN product.category_name
                     ELSE Str("Sin categoria"),
                   items |-> <<>>]),
                indexByCategory |->
                  [k \in DOMAIN acc.indexByCategory \cup {mapKey} |->
                     IF k = mapKey THEN groupIndex
                     ELSE acc.indexByCategory[k]]]
    IN  GroupFrom(products, i + 1,
          [opened EXCEPT !.groups[groupIndex].items = Append(@, product)])

\* cliente/page.tsx:131-155
groupProductsByCategory(products) ==
  GroupFrom(products, 1, [groups |-> <<>>, indexByCategory |-> <<>>]).groups

NotRendered == [t |-> "not rendered"]

\* cliente/page.tsx:615-618, the render of the card of a local
RenderGroups ==
  /\ groups = NotRendered
  /\ groups' = IF Truthy(catalog)
               THEN Arr(groupProductsByCategory(catalog.arr))
               ELSE Arr(<<>>)
  /\ UNCHANGED <<catalog, ordersVars, catalogVars, loyaltyPage, panelVars,
                 apiVars, authVars>>

\* the wallet is not open
WalletIdle ==
  /\ catalog = Null
  /\ groups = NotRendered

-----------------------------------------------------------------------------
(* CatalogPage (frontend/src/app/register/page.tsx): what the owner of a
   local sees of the products and how the page changes them *)

\* bound on the products the backend lists when the page loads
MaxProducts == 3

\* bound on the requests the catalog page sends in one run of the model
MaxCatalogRequests == 7

\* the requests the step adds are counted, up to the bound
CatalogCounted(before) ==
  /\ requestsSent' = requestsSent + (Len(inflight') - before)
  /\ requestsSent' <= MaxCatalogRequests

Digits == <<"0", "1", "2", "3", "4", "5", "6", "7", "8", "9">>

IsDigits(s) ==
  s # <<>> /\ \A i \in DOMAIN s : \E k \in DOMAIN Digits : Digits[k] = s[i]

RECURSIVE DigitsValue(_)
DigitsValue(s) ==
  IF s = <<>> THEN 0
  ELSE 10 * DigitsValue(SubSeq(s, 1, Len(s) - 1))
       + (CHOOSE k \in DOMAIN Digits : Digits[k] = s[Len(s)]) - 1

\* the value that is not a number
NaN == [t |-> "NaN"]

\* Number(s) for the values a numeric input holds: "" is 0, an integer in
\* decimal digits is itself, anything else is NaN
Number(s) ==
  IF s = <<>> THEN Num(0)
  ELSE IF IsDigits(s) THEN Num(DigitsValue(s))
  ELSE IF Head(s) = "-" /\ IsDigits(Tail(s)) THEN Num(0 - DigitsValue(Tail(s)))
  ELSE NaN

\* String(n) for an integer
RECURSIVE String(_)
String(n) ==
  IF n < 0 THEN <<"-">> \o String(0 - n)
  ELSE IF n < 10 THEN <<Digits[n + 1]>>
  ELSE String(n \div 10) \o <<Digits[(n % 10) + 1]>>

\* the names of the categories: two locals of an owner may both have a
\* category called "cafe"
Cafe == <<"c", "a", "f", "e">>
Te == <<"t", "e">>

\* GET /api/locals/: the locals of every owner
BackendLocals ==
  <<[id |-> 1, owner_name |-> Str("ana")],
    [id |-> 2, owner_name |-> Str("ana")],
    [id |-> 9, owner_name |-> Str("bob")]>>

\* GET /api/categories/: the categories of every local (ProductCategory,
\* page.tsx:1432-1442)
BackendCategories ==
  <<[id |-> 1, name |-> Cafe, local |-> 1, tracks_stock |-> TRUE],
    [id |-> 2, name |-> Te, local |-> 1, tracks_stock |-> FALSE],
    [id |-> 3, name |-> Cafe, local |-> 2, tracks_stock |-> TRUE],
    [id |-> 7, name |-> Te, local |-> 9, tracks_stock |-> FALSE]>>

CategoryOf(id) ==
  BackendCategories[CHOOSE k \in DOMAIN BackendCategories :
                      BackendCategories[k].id = id]

StockStates == {"available", "normal", "low", "critical", "out"}

\* a Product (page.tsx:1446-1471) as the backend serialises it
ProductOf(id, category, display_order, name, description, stock, label) ==
  [id |-> id,
   local |-> CategoryOf(category).local,
   category |-> category,
   category_name |-> CategoryOf(category).name,
   tracks_stock |-> CategoryOf(category).tracks_stock,
   name |-> name,
   description |-> description,
   price |-> <<"9">>,
   stock |-> stock,
   in_stock |-> (~CategoryOf(category).tracks_stock) \/ stock > 0,
   stock_state |-> label,
   low_stock_threshold |-> 5,
   critical_stock_threshold |-> 2,
   display_order |-> display_order,
   is_active |-> TRUE]

\* the products the backend may list
ProductPool ==
  {ProductOf(1, 1, 1, <<"L", "a", "t", "t", "e">>, Null, 1, "critical"),
   ProductOf(2, 3, 0, <<"m", "o", "c", "h", "a">>, Str(<<"O", "L", "A">>),
             9, "normal"),
   ProductOf(3, 1, 0, <<"t", "e">>, Str(<<>>), 1, "critical"),
   ProductOf(4, 2, 0, <<"l", "a", "t", "e">>, Str(<<>>), 0, "available"),
   ProductOf(5, 7, 0, <<"l", "a", "t", "t", "e">>, Null, 1, "critical"),
   ProductOf(6, 1, 1, <<"l", "a", "t", "t", "e">>, Str(<<>>), 9, "normal")}

\* the lists of GET /api/products/: every product once, in any order
ProductLists ==
  {s \in UNION {[1..n -> ProductPool] : n \in 0..MaxProducts} :
     \A i, j \in DOMAIN s : i # j => s[i].id # s[j].id}

\* what the owner may type in the search box
SearchTerms ==
  {<<>>, <<" ">>, <<"l", "a">>, <<" ", "L", "A", " ">>}

\* EMPTY_FORM (page.tsx:1518-1532), the fields the product payload uses
EMPTY_FORM ==
  [name |-> <<>>,
   description |-> <<>>,
   price |-> <<>>,
   localId |-> <<>>,
   categoryId |-> <<>>,
   stock |-> <<>>,
   inStock |-> TRUE,
   tracksStock |-> TRUE,
   lowStockThreshold |-> <<"5">>,
   criticalStockThreshold |-> <<"0">>]

\* the state hooks of the page at its first render (page.tsx:1541-1562)
CatalogInitialState ==
  [mounted |-> FALSE,
   locals |-> <<>>,
   categories |-> <<>>,
   products |-> <<>>,
   loading |-> TRUE,
   error |-> Null,
   form |-> EMPTY_FORM,
   showForm |-> FALSE,
   saving |-> FALSE,
   updatingProductId |-> Null,
   editingProduct |-> Null,
   stockFilter |-> "all",
   searchTerm |-> <<>>,
   categoryFilter |-> Str("all")]

\* items.filter(keep)
RECURSIVE Filter(_, _)
Filter(items, kept) ==
  IF items = <<>> THEN <<>>
  ELSE IF Head(items).id \in kept
       THEN <<Head(items)>> \o Filter(Tail(items), kept)
       ELSE Filter(Tail(items), kept)

\* page.tsx:1617-1620
myLocals(p, usr) ==
  IF ~Truthy(usr) THEN <<>>
  ELSE Filter(p.locals,
              {p.locals[i].id : i \in {k \in DOMAIN p.locals :
                 p.locals[k].owner_name = Get(usr, "username")}})

\* page.tsx:1622-1625
myLocalIds(p, usr) ==
  {myLocals(p, usr)[i].id : i \in DOMAIN myLocals(p, usr)}

\* the comparator of page.tsx:1637-1644
CompareProducts(a, b) ==
  IF a.category = b.category
  THEN IF a.display_order - b.display_order # 0
       THEN a.display_order - b.display_order
       ELSE localeCompare(a.name, b.name)
  ELSE localeCompare(a.category_name, b.category_name)

\* where a binary insertion puts pivot in sorted[left+1..right]
RECURSIVE InsertionPoint(_, _, _, _)
InsertionPoint(sorted, pivot, left, right) ==
  IF left >= right THEN left
  ELSE LET mid == left + ((right - left) \div 2)
       IN  IF CompareProducts(pivot, sorted[mid + 1]) < 0
           THEN InsertionPoint(sorted, pivot, left, mid)
           ELSE InsertionPoint(sorted, pivot, mid + 1, right)

\* Array.prototype.sort as a binary insertion sort (short arrays in V8)
RECURSIVE InsertionSort(_, _)
InsertionSort(sorted, rest) ==
  IF rest = <<>> THEN sorted
  ELSE LET at == InsertionPoint(sorted, Head(rest), 0, Len(sorted))
       IN  InsertionSort(SubSeq(sorted, 1, at) \o <<Head(rest)>>
                           \o SubSeq(sorted, at + 1, Len(sorted)),
                         Tail(rest))

\* the merge of two sorted runs: the left item goes first unless the right
\* one compares below it
RECURSIVE Merge2(_, _)
Merge2(left, right) ==
  IF left = <<>> THEN right
  ELSE IF right = <<>> THEN left
  ELSE IF CompareProducts(Head(right), Head(left)) < 0
       THEN <<Head(right)>> \o Merge2(left, Tail(right))
       ELSE <<Head(left)>> \o Merge2(Tail(left), right)

\* Array.prototype.sort as a merge sort (SpiderMonkey, JavaScriptCore)
RECURSIVE MergeSort(_)
MergeSort(items) ==
  IF Len(items) <= 1 THEN items
  ELSE LET half == Len(items) \div 2
       IN  Merge2(MergeSort(SubSeq(items, 1, half)),
                  MergeSort(SubSeq(items, half + 1, Len(items))))

\* items.sort(comparator): with a comparator that is not consistent the
\* order is implementation-defined, so every engine's order is an outcome
SortOutcomes(items) == {InsertionSort(<<>>, items), MergeSort(items)}

\* page.tsx:1633-1645: the values the memo can take for a products list
VisibleProductsOf(p, usr) ==
  IF myLocalIds(p, usr) = {} THEN {<<>>}
  ELSE SortOutcomes(
         Filter(p.products,
                {p.products[i].id : i \in {k \in DOMAIN p.products :
                   p.products[k].local \in myLocalIds(p, usr)}}))

\* page.tsx:1655-1658
manageableCategories(p, usr) ==
  IF myLocalIds(p, usr) = {} THEN <<>>
  ELSE Filter(p.categories,
              {p.categories[i].id : i \in {k \in DOMAIN p.categories :
                 p.categories[k].local \in myLocalIds(p, usr)}})

\* page.tsx:1664-1670
criticalProducts(visible) ==
  Filter(visible,
         {visible[i].id : i \in {k \in DOMAIN visible :
            visible[k].tracks_stock /\ visible[k].stock_state = "critical"}})

\* the search of page.tsx:1685-1692 comparing the term as it was typed
SearchAsTyped(dataset, searchTerm) ==
  Filter(dataset,
         {dataset[i].id : i \in {k \in DOMAIN dataset :
            \/ Includes(dataset[k].name, searchTerm)
            \/ Includes(Coalesce(dataset[k].description, Str(<<>>)).str,
                        searchTerm)}})

\* page.tsx:1685-1692
Search(dataset, searchTerm) ==
  IF Trim(searchTerm) = <<>> THEN dataset
  ELSE LET term == ToLowerCase(Trim(searchTerm))
       IN  Filter(dataset,
                  {dataset[i].id : i \in {k \in DOMAIN dataset :
                     \/ Includes(ToLowerCase(dataset[k].name), term)
                     \/ Includes(ToLowerCase(
                           Coalesce(dataset[k].description, Str(<<>>)).str),
                         term)}})

\* page.tsx:1672-1701
filteredProducts(p, visible) ==
  LET byStock == IF p.stockFilter = "critical" THEN criticalProducts(visible)
                 ELSE visible
      byCategory == IF p.categoryFilter # Str("all")
                    THEN Filter(byStock,
                           {byStock[i].id : i \in {k \in DOMAIN byStock :
                              Num(byStock[k].category) = p.categoryFilter}})
                    ELSE byStock
  IN  Search(byCategory, p.searchTerm)

\* page.tsx:1705-1708
isFiltering(p) ==
  \/ p.stockFilter = "critical"
  \/ p.categoryFilter # Str("all")
  \/ Len(Trim(p.searchTerm)) > 0

\* page.tsx:1719-1726: the effect that keeps inStock in step with the stock
\* typed for a tracked product
SyncInStock(form) ==
  IF ~form.tracksStock THEN form
  ELSE LET numericStock == Number(form.stock)
       IN  [form EXCEPT !.inStock = numericStock # NaN
                                     /\ numericStock.num > 0]

\* page.tsx:1647-1653: the effect that preselects the first own local
DefaultLocal(form, locals) ==
  IF locals = <<>> \/ form.localId # <<>> THEN form
  ELSE [form EXCEPT !.localId = String(locals[1].id)]

\* the page shows its controls and its table (page.tsx:2366-2410)
CatalogControls ==
  /\ catalogPage.mounted
  /\ Truthy(user)
  /\ ~catalogPage.loading
  /\ myLocals(catalogPage, user) # <<>>

\* the page is opened: first render and the effect of page.tsx:1569-1615
CatalogMount ==
  /\ ~catalogPage.mounted
  /\ LET p0 == [CatalogInitialState EXCEPT !.mounted = TRUE,
                                           !.form = SyncInStock(EMPTY_FORM)]
     IN  IF ~Truthy(user) \/ ~Truthy(accessToken)
         THEN /\ catalogPage' = [p0 EXCEPT !.loading = FALSE]
              /\ inflight' = inflight
         ELSE /\ catalogPage' = p0
              /\ inflight' = Append(inflight, [kind |-> "load"])
  /\ visibleProducts' = <<>>
  /\ CatalogCounted(Len(inflight))
  /\ UNCHANGED <<backend, timers, orderStatus, ordersPage, offCatalog,
                 apiVars, authVars>>

\* the four requests of the first load are answered (page.tsx:1578-1611)
LoadSettle ==
  /\ \E i \in DOMAIN inflight :
       /\ inflight[i].kind = "load"
       /\ inflight' = RemoveAt(inflight, i)
       /\ \/ LET p1 == [catalogPage EXCEPT !.locals = backend.locals,
                                           !.products = backend.products,
                                           !.categories = backend.categories,
                                           !.loading = FALSE]
             IN  /\ catalogPage' =
                      [p1 EXCEPT !.form = SyncInStock(
                         DefaultLocal(p1.form, myLocals(p1, user)))]
                 /\ visibleProducts' \in VisibleProductsOf(p1, user)
          \/ /\ catalogPage' =
                  [catalogPage EXCEPT !.error = Str("No pudimos cargar el catalogo. Intenta nuevamente en unos minutos."),
                                      !.loading = FALSE]
             /\ UNCHANGED visibleProducts
  /\ UNCHANGED <<backend, requestsSent, timers, orderStatus, ordersPage,
                 offCatalog, apiVars, authVars>>

\* the stock filter button (page.tsx:2444-2448)
ToggleStockFilter ==
  /\ CatalogControls
  /\ catalogPage' = [catalogPage EXCEPT !.stockFilter =
                       IF @ = "critical" THEN "all" ELSE "critical"]
  /\ UNCHANGED <<visibleProducts, backend, ordersVars, offCatalog, apiVars,
                 authVars>>

\* the search box (page.tsx:3002-3009)
SetSearchTerm ==
  /\ CatalogControls
  /\ \E term \in SearchTerms :
       catalogPage' = [catalogPage EXCEPT !.searchTerm = term]
  /\ UNCHANGED <<visibleProducts, backend, ordersVars, offCatalog, apiVars,
                 authVars>>

\* the category selector over the table, which offers "all" and the
\* manageable categories (page.tsx:3014-3029), and the category cards
\* (page.tsx:2944-2950)
SetCategoryFilter ==
  /\ CatalogControls
  /\ \E c \in DOMAIN manageableCategories(catalogPage, user) :
       \E choice \in {Str("all"),
                      Num(manageableCategories(catalogPage, user)[c].id)} :
         catalogPage' = [catalogPage EXCEPT !.categoryFilter = choice]
  /\ UNCHANGED <<visibleProducts, backend, ordersVars, offCatalog, apiVars,
                 authVars>>

\* 'Limpiar filtros' (page.tsx:3032-3044)
ClearFilters ==
  /\ CatalogControls
  /\ isFiltering(catalogPage)
  /\ catalogPage' = [catalogPage EXCEPT !.searchTerm = <<>>,
                                        !.categoryFilter = Str("all"),
                                        !.stockFilter = "all"]
  /\ UNCHANGED <<visibleProducts, backend, ordersVars, offCatalog, apiVars,
                 authVars>>

\* the products and categories the backend holds when the owner starts to
\* edit the catalog: a tracked product of ana and an untracked one of bob
CatalogAtStart ==
  [locals |-> BackendLocals,
   categories |-> <<BackendCategories[1], BackendCategories[4]>>,
   products |-> <<ProductOf(1, 1, 1, <<"L", "a", "t", "t", "e">>, Null, 1,
                            "critical"),
                  ProductOf(5, 7, 0, <<"l", "a", "t", "t", "e">>, Null, 0,
                            "available")>>]

\* two products with tracked stock in a local of ana
StockAtStart ==
  [locals |-> BackendLocals,
   categories |-> <<BackendCategories[1]>>,
   products |-> <<ProductOf(1, 1, 1, <<"L", "a", "t", "t", "e">>, Null, 1,
                            "critical"),
                  ProductOf(3, 1, 0, <<"t", "e">>, Null, 6, "normal")>>]

\* bound on the products the backend stores
MaxStored == 3

\* bound on the requests sent before the owner stops filling the form: with
\* 2 the form is submitted once, right after the load
MaxSaveAfter == 2

\* handleFormChange (page.tsx:1762-1805): the form after the change
handleFormChange(p, field, value) ==
  LET prev == p.form
      next == [prev EXCEPT ![field] = value]
      found == {k \in DOMAIN p.categories :
                  String(p.categories[k].id) = value}
      category == p.categories[CHOOSE k \in found : \A j \in found : k <= j]
      located == [next EXCEPT !.tracksStock = category.tracks_stock,
                              !.localId = IF category.local # 0
                                          THEN String(category.local) ELSE @]
  IN  IF field = "categoryId"
      THEN IF found = {} THEN next
           ELSE IF ~category.tracks_stock
           THEN [located EXCEPT !.stock = <<>>,
                                !.lowStockThreshold = <<"0">>,
                                !.criticalStockThreshold = <<"0">>]
           ELSE IF p.editingProduct = Null
           THEN [located EXCEPT
                   !.lowStockThreshold =
                      IF prev.lowStockThreshold # <<>>
                      THEN prev.lowStockThreshold ELSE <<"5">>,
                   !.criticalStockThreshold =
                      IF prev.criticalStockThreshold # <<>>
                      THEN prev.criticalStockThreshold ELSE <<"0">>]
           ELSE located
      ELSE IF field = "tracksStock" /\ value = FALSE
      THEN [next EXCEPT !.stock = <<>>,
                        !.lowStockThreshold = <<"0">>,
                        !.criticalStockThreshold = <<"0">>,
                        !.inStock = TRUE]
      ELSE IF field = "tracksStock" /\ value = TRUE /\ p.editingProduct = Null
      THEN [next EXCEPT
              !.lowStockThreshold = IF @ # <<>> THEN @ ELSE <<"5">>,
              !.criticalStockThreshold = IF @ # <<>> THEN @ ELSE <<"0">>]
      ELSE next

\* what the owner can enter in the controls the form shows
\* (page.tsx:2608-2862): a field and the value of its change event
FormInputs(p, usr) ==
  {<<"name", v>> : v \in {<<" ">>, <<"t", "e">>}}
  \cup {<<"price", <<"9">>>>}
  \cup {<<"categoryId", String(p.categories[k].id)>> :
          k \in DOMAIN p.categories}
  \cup (IF Len(myLocals(p, usr)) > 1
        THEN {<<"localId", String(id)>> : id \in myLocalIds(p, usr)}
        ELSE {})
  \cup {<<"tracksStock", ~p.form.tracksStock>>}
  \cup (IF p.form.tracksStock
        THEN {<<"stock", <<"0">>>>, <<"criticalStockThreshold", <<"9">>>>}
        ELSE {<<"inStock", ~p.form.inStock>>})

\* a field of the form is edited
FormChange ==
  /\ CatalogControls
  /\ catalogPage.showForm
  /\ requestsSent < MaxSaveAfter
  /\ \E input \in FormInputs(catalogPage, user) :
       catalogPage' =
         [catalogPage EXCEPT !.form = SyncInStock(
            handleFormChange(catalogPage, input[1], input[2]))]
  /\ UNCHANGED <<visibleProducts, backend, ordersVars, offCatalog, apiVars,
                 authVars>>

\* the button that opens and closes the form (page.tsx:2481-2488)
ToggleForm ==
  /\ CatalogControls
  /\ catalogPage' = [catalogPage EXCEPT !.error = Null,
                                        !.showForm = ~@,
                                        !.editingProduct = Null,
                                        !.form = SyncInStock(EMPTY_FORM)]
  /\ UNCHANGED <<visibleProducts, backend, ordersVars, offCatalog, apiVars,
                 authVars>>

\* 'Cancelar' in the form (page.tsx:2881-2885)
CancelForm ==
  /\ CatalogControls
  /\ catalogPage.showForm
  /\ catalogPage' = [catalogPage EXCEPT !.showForm = FALSE,
                                        !.editingProduct = Null,
                                        !.form = SyncInStock(EMPTY_FORM)]
  /\ UNCHANGED <<visibleProducts, backend, ordersVars, offCatalog, apiVars,
                 authVars>>

\* handleEditProduct (page.tsx:2020-2043) on a row of the table
EditProduct ==
  /\ CatalogControls
  /\ \E r \in DOMAIN filteredProducts(catalogPage, visibleProducts) :
       LET product == filteredProducts(catalogPage, visibleProducts)[r]
       IN  catalogPage' =
             [catalogPage EXCEPT
                !.error = Null,
                !.editingProduct = product,
                !.showForm = TRUE,
                !.form = SyncInStock(
                   [EMPTY_FORM EXCEPT
                      !.name = product.name,
                      !.description =
                         Coalesce(product.description, Str(<<>>)).str,
                      !.price = product.price,
                      !.localId = String(product.local),
                      !.categoryId = String(product.category),
                      !.stock = IF product.tracks_stock
                                THEN String(product.stock) ELSE <<>>,
                      !.inStock = product.in_stock,
                      !.tracksStock = product.tracks_stock,
                      !.lowStockThreshold =
                         String(product.low_stock_threshold),
                      !.criticalStockThreshold =
                         String(product.critical_stock_threshold)])]
  /\ UNCHANGED <<visibleProducts, backend, ordersVars, offCatalog, apiVars,
                 authVars>>

\* the browser fires the submit event only when the controls the form shows
\* are valid: required fields filled with an option or a value, numbers not
\* below min="0" (page.tsx:2608-2848)
SubmitAllowed(p, usr) ==
  LET Valid(text) == text # <<>> /\ Number(text) # NaN /\ Number(text).num >= 0
  IN  /\ p.form.name # <<>>
      /\ Valid(p.form.price)
      /\ \E k \in DOMAIN p.categories :
           String(p.categories[k].id) = p.form.categoryId
      /\ Len(myLocals(p, usr)) > 1 =>
           \E id \in myLocalIds(p, usr) : String(id) = p.form.localId
      /\ p.form.tracksStock =>
           /\ Valid(p.form.stock)
           /\ Valid(p.form.lowStockThreshold)
           /\ Valid(p.form.criticalStockThreshold)

\* Math.max(a, b)
MathMax(a, b) == IF a > b THEN a ELSE b

\* the thresholds pass whatever their order
ThresholdsUnchecked(low, critical) == TRUE
\* page.tsx:1965: the check on the normalised thresholds
ThresholdsInOrder(low, critical) == ~(low < critical)

\* the checks of handleSubmitProduct (page.tsx:1911-1970): the message of the
\* first one that fails, or null
SubmitError(form, token) ==
  IF ~Truthy(token)
  THEN Str("Tu sesion expiro. Inicia sesion nuevamente.")
  ELSE IF form.localId = <<>>
  THEN Str("Selecciona un local para asociar el producto.")
  ELSE IF form.categoryId = <<>>
  THEN Str("Selecciona una categoria para el producto.")
  ELSE IF Trim(form.name) = <<>> \/ form.price = <<>>
  THEN Str("Completa al menos nombre y precio para guardar el producto.")
  ELSE IF ~form.tracksStock THEN Null
  ELSE IF Number(form.stock) = NaN
  THEN Str("Stock debe ser un numero valido.")
  ELSE IF Number(form.lowStockThreshold) = NaN
          \/ Number(form.criticalStockThreshold) = NaN
  THEN Str("Los umbrales deben ser numeros validos.")
  ELSE IF ~ThresholdsInOrder(
             MathMax(Number(form.lowStockThreshold).num, 0),
             MathMax(Number(form.criticalStockThreshold).num, 0))
  THEN Str("El umbral de stock bajo debe ser igual o superior al critico.")
  ELSE Null

\* the payload of handleSubmitProduct (page.tsx:1931-1981) for a form that
\* passed the checks
SubmitPayload(form, editing) ==
  Merge(
    IF editing = Null
    THEN [name |-> Trim(form.name),
          description |-> Trim(form.description),
          price |-> form.price,
          category |-> Number(form.categoryId),
          local |-> Number(form.localId),
          tracks_stock |-> form.tracksStock,
          is_active |-> TRUE]
    ELSE [name |-> Trim(form.name),
          description |-> Trim(form.description),
          price |-> form.price,
          category |-> Number(form.categoryId),
          local |-> Number(form.localId),
          tracks_stock |-> form.tracksStock],
    IF form.tracksStock
    THEN [stock |-> Num(MathMax(Number(form.stock).num, 0)),
          low_stock_threshold |->
            Num(MathMax(Number(form.lowStockThreshold).num, 0)),
          critical_stock_threshold |->
            Num(MathMax(Number(form.criticalStockThreshold).num, 0)),
          in_stock |-> MathMax(Number(form.stock).num, 0) > 0]
    ELSE [stock |-> Num(0),
          low_stock_threshold |-> Num(0),
          critical_stock_threshold |-> Num(0),
          in_stock |-> form.inStock])

\* handleSubmitProduct up to its request (page.tsx:1906-1999)
SubmitProduct ==
  /\ CatalogControls
  /\ catalogPage.showForm
  /\ ~catalogPage.saving
  /\ requestsSent < MaxSaveAfter
  /\ SubmitAllowed(catalogPage, user)
  /\ IF SubmitError(catalogPage.form, accessToken) # Null
     THEN /\ catalogPage' =
               [catalogPage EXCEPT
                  !.error = SubmitError(catalogPage.form, accessToken)]
          /\ inflight' = inflight
     ELSE /\ catalogPage' = [catalogPage EXCEPT !.saving = TRUE,
                                                !.error = Null]
          /\ inflight' =
               Append(inflight,
                      [kind |-> "save",
                       id |-> IF catalogPage.editingProduct = Null THEN Null
                              ELSE Num(catalogPage.editingProduct.id),
                       body |-> SubmitPayload(catalogPage.form,
                                              catalogPage.editingProduct)])
  /\ Len(inflight') <= MaxInFlight
  /\ CatalogCounted(Len(inflight))
  /\ UNCHANGED <<visibleProducts, backend, timers, orderStatus, ordersPage,
                 offCatalog, apiVars, authVars>>

\* the fields of a product the backend derives when it serialises it: the
\* name of its category, the availability of a tracked product and the
\* label of its quantity against the thresholds
Relabel(product) ==
  [product EXCEPT
     !.category_name = CategoryOf(product.category).name,
     !.in_stock = IF product.tracks_stock THEN product.stock > 0 ELSE @,
     !.stock_state =
        IF ~product.tracks_stock THEN "available"
        ELSE IF product.stock <= 0 THEN "out"
        ELSE IF product.stock <= product.critical_stock_threshold
        THEN "critical"
        ELSE IF product.stock <= product.low_stock_threshold THEN "low"
        ELSE "normal"]

\* what the backend stores of the body of a write: numbers as numbers
Stored(body) ==
  [k \in DOMAIN body |->
     IF k \in {"stock", "low_stock_threshold", "critical_stock_threshold",
               "category", "local"}
     THEN body[k].num ELSE body[k]]

\* the products of the backend after it accepted a write
ServerWrite(products, request) ==
  IF request.id = Null
  THEN Append(products,
              Relabel(Merge([id |-> 8,
                             category_name |->
                               CategoryOf(request.body.category.num).name,
                             stock_state |-> "available",
                             display_order |-> 0],
                            [Stored(request.body) EXCEPT
                               !.description = Str(@)])))
  ELSE [k \in DOMAIN products |->
          IF products[k].id # request.id.num THEN products[k]
          ELSE Relabel(Merge(products[k],
                 IF "description" \in DOMAIN request.body
                 THEN [Stored(request.body) EXCEPT !.description = Str(@)]
                 ELSE Stored(request.body)))]

\* a row button starts a PATCH of its product (page.tsx:2045-2115)
RowWrite(product, body, message) ==
  /\ Truthy(accessToken)
  /\ catalogPage' = [catalogPage EXCEPT
                       !.updatingProductId = Num(product.id),
                       !.error = Null]
  /\ inflight' = Append(inflight, [kind |-> "patch", id |-> Num(product.id),
                                   body |-> body, message |-> message,
                                   product |-> product])
  /\ Len(inflight') <= MaxInFlight
  /\ CatalogCounted(Len(inflight))
  /\ UNCHANGED <<visibleProducts, backend, timers, orderStatus, ordersPage,
                 offCatalog, apiVars, authVars>>

\* the rows whose buttons are enabled (page.tsx:2252 and 2317)
EnabledRows ==
  {r \in DOMAIN filteredProducts(catalogPage, visibleProducts) :
     catalogPage.updatingProductId #
       Num(filteredProducts(catalogPage, visibleProducts)[r].id)}

\* handleToggleActive (page.tsx:2045-2065)
ToggleActive ==
  /\ CatalogControls
  /\ \E r \in EnabledRows :
       LET product == filteredProducts(catalogPage, visibleProducts)[r]
       IN  RowWrite(product, [is_active |-> ~product.is_active],
                    Str("No pudimos actualizar el estado del producto."))

\* handleStockAdjust (page.tsx:2067-2092) from the buttons of page.tsx:2259-
\* 2283
StockAdjust ==
  /\ CatalogControls
  /\ \E r \in EnabledRows, delta \in {-1, 1} :
       LET product == filteredProducts(catalogPage, visibleProducts)[r]
       IN  /\ product.tracks_stock
           /\ delta = -1 => product.stock # 0
           /\ product.stock + delta >= 0
           /\ RowWrite(product, [stock |-> Num(product.stock + delta)],
                       Str("No pudimos ajustar el stock. Intenta nuevamente."))

\* handleToggleAvailability (page.tsx:2094-2115)
ToggleAvailability ==
  /\ CatalogControls
  /\ \E r \in EnabledRows :
       LET product == filteredProducts(catalogPage, visibleProducts)[r]
       IN  /\ ~product.tracks_stock
           /\ RowWrite(product, [in_stock |-> ~product.in_stock],
                Str("No pudimos actualizar la disponibilidad del producto."))

\* the error of the catch of handleSubmitProduct (page.tsx:2004-2014)
SaveErrorMessage(err) ==
  IF err.name # "ApiError"
  THEN Str("Ocurrio un error inesperado al guardar el producto.")
  ELSE IF DOMAIN err.details = {"str"} THEN err.details
  ELSE Str("No pudimos guardar el producto. Revisa los datos ingresados.")

\* the backend answers a write of the form or of a row: when it accepted it,
\* the handler goes on to handleRefreshProducts; when it did not, the catch
\* and the finally run (page.tsx:1986-2017 and 2050-2062)
WriteSettle ==
  /\ \E i \in DOMAIN inflight :
       /\ inflight[i].kind \in {"save", "patch"}
       /\ \/ /\ inflight[i].id = Null => Len(backend.products) < MaxStored
             /\ backend' = [backend EXCEPT
                              !.products = ServerWrite(@, inflight[i])]
             /\ inflight' = Append(RemoveAt(inflight, i),
                                   [kind |-> "refresh",
                                    after |-> inflight[i].kind])
             /\ catalogPage' =
                  IF inflight[i].kind = "patch" THEN catalogPage
                  ELSE [catalogPage EXCEPT !.form = SyncInStock(EMPTY_FORM),
                                           !.editingProduct = Null,
                                           !.showForm = FALSE]
          \/ /\ \E err \in Failures :
                  catalogPage' =
                    IF inflight[i].kind = "patch"
                    THEN [catalogPage EXCEPT !.error = inflight[i].message,
                                             !.updatingProductId = Null]
                    ELSE [catalogPage EXCEPT !.error = SaveErrorMessage(err),
                                             !.saving = FALSE]
             /\ inflight' = RemoveAt(inflight, i)
             /\ UNCHANGED backend
  /\ CatalogCounted(Len(inflight) - 1)
  /\ UNCHANGED <<visibleProducts, timers, orderStatus, ordersPage,
                 offCatalog, apiVars, authVars>>

\* the list the page keeps of a replaced list where it knew the product
ProductsKeptWhereKnown(before, response) ==
  [k \in DOMAIN response |->
     IF \E j \in DOMAIN before : before[j].id = response[k].id
     THEN before[CHOOSE j \in DOMAIN before : before[j].id = response[k].id]
     ELSE response[k]]
\* setProducts(productsResponse) (page.tsx:1739)
setProducts(before, response) == response

\* the requests of handleRefreshProducts are answered (page.tsx:1728-1747),
\* then the finally of the handler that awaited it runs
RefreshSettle ==
  /\ \E i \in DOMAIN inflight :
       /\ inflight[i].kind = "refresh"
       /\ inflight' = RemoveAt(inflight, i)
       /\ LET done == IF inflight[i].after = "save"
                      THEN [catalogPage EXCEPT !.saving = FALSE]
                      ELSE [catalogPage EXCEPT !.updatingProductId = Null]
          IN  \/ /\ catalogPage' =
                      [done EXCEPT !.products =
                         setProducts(@, backend.products)]
                 /\ visibleProducts' \in
                      VisibleProductsOf(
                        [done EXCEPT !.products =
                           setProducts(@, backend.products)], user)
              \/ /\ catalogPage' =
                      [done EXCEPT !.error =
                         Str("No pudimos actualizar la lista de productos.")]
                 /\ UNCHANGED visibleProducts
  /\ UNCHANGED <<backend, requestsSent, timers, orderStatus, ordersPage,
                 offCatalog, apiVars, authVars>>

\* the page is not open
CatalogClosed ==
  /\ catalogPage = CatalogInitialState
  /\ visibleProducts = <<>>

\* the page is not open and the backend lists nothing
CatalogIdle ==
  /\ CatalogClosed
  /\ backend = [locals |-> BackendLocals, categories |-> BackendCategories,
                products |-> <<>>]

-----------------------------------------------------------------------------
(* LoyaltyDashboardPage (part_001:870-1390): the manual adjustment of the
   points of a customer *)

\* the integer of the digits at the start
ParsedOrZero(s) ==
  LET digits == IF s # <<>> /\ Head(s) \in {"-", "+"} THEN Tail(s) ELSE s
      n == Cardinality({k \in DOMAIN digits :
                          IsDigits(SubSeq(digits, 1, k))})
  IN  IF s # <<>> /\ Head(s) = "-"
      THEN Num(0 - DigitsValue(SubSeq(digits, 1, n)))
      ELSE Num(DigitsValue(SubSeq(digits, 1, n)))
\* Number.parseInt(s, 10) for a string without white space: an optional
\* sign, then the digits up to the first character that is none; NaN when
\* no digit is there
parseInt(s) ==
  LET digits == IF s # <<>> /\ Head(s) \in {"-", "+"} THEN Tail(s) ELSE s
      n == Cardinality({k \in DOMAIN digits :
                          IsDigits(SubSeq(digits, 1, k))})
  IN  IF n = 0 THEN NaN
      ELSE IF Head(s) = "-" THEN Num(0 - DigitsValue(SubSeq(digits, 1, n)))
      ELSE Num(DigitsValue(SubSeq(digits, 1, n)))

\* the hooks of the page at its first render (part_001:872-887)
LoyaltyInitialState ==
  [mounted |-> FALSE,
   locals |-> <<>>,
   selectedLocalId |-> Str("all"),
   loading |-> TRUE,
   refreshing |-> FALSE,
   error |-> Null,
   adjustForm |-> [username |-> <<>>, delta |-> <<>>],
   adjusting |-> FALSE,
   adjustFeedback |-> Null]

\* fetchData (part_001:925-1005) up to its requests, for the local its
\* closure holds: the page and the requests afterwards
LoyaltyFetch(p, fl, token, local, initial) ==
  IF ~Truthy(token) THEN [page |-> p, inflight |-> fl]
  ELSE [page |-> IF initial THEN [p EXCEPT !.error = Null, !.loading = TRUE]
                 ELSE [p EXCEPT !.error = Null, !.refreshing = TRUE],
        inflight |-> Append(fl, [kind |-> "points", local |-> local])]

\* the effects of part_001:894-919 and 1007-1010 after a render: the first
\* runs when the session changed, the second also when fetchData did
LoyaltyEffects(p, fl, token, usr, sessionChanged) ==
  LET first == IF ~sessionChanged THEN [page |-> p, inflight |-> fl]
               ELSE IF ~Truthy(usr) \/ ~Truthy(token)
               THEN [page |-> [p EXCEPT !.loading = FALSE], inflight |-> fl]
               ELSE [page |-> p,
                     inflight |-> Append(fl, [kind |-> "locals"])]
  IN  IF ~Truthy(usr) \/ ~Truthy(token) THEN first
      ELSE LoyaltyFetch(first.page, first.inflight, token,
                        p.selectedLocalId, TRUE)

\* the page shows its selectors and the adjustment form (part_001:1092-1118)
LoyaltyControls ==
  loyaltyPage.mounted /\ Truthy(user) /\ ~loyaltyPage.loading

\* the page is opened
LoyaltyMount ==
  /\ ~loyaltyPage.mounted
  /\ LET e == LoyaltyEffects([LoyaltyInitialState EXCEPT !.mounted = TRUE],
                             inflight, accessToken, user, TRUE)
     IN  loyaltyPage' = e.page /\ inflight' = e.inflight
  /\ Len(inflight') <= MaxInFlight
  /\ Counted(Len(inflight))
  /\ UNCHANGED <<timers, orderStatus, ordersPage, offLoyalty,
                 apiVars, authVars>>

\* useAuth hands the page another session
LoyaltySession ==
  /\ loyaltyPage.mounted
  /\ \E s \in Sessions :
       /\ s.tokens # tokens
       /\ tokens' = s.tokens
       /\ user' = s.user
       /\ LET e == LoyaltyEffects(loyaltyPage, inflight,
                                  Coalesce(Get(s.tokens, "access"), Null),
                                  s.user, TRUE)
          IN  loyaltyPage' = e.page /\ inflight' = e.inflight
  /\ Len(inflight') <= MaxInFlight
  /\ Counted(Len(inflight))
  /\ UNCHANGED <<timers, orderStatus, ordersPage, offLoyalty,
                 apiVars, hydrated, loading, error, storage, router, pc,
                 caller, payload, tokenResponse, localError, users>>

\* the selector of the local (part_001:1148-1164): 'Todos' or an own local
LoyaltySelectLocal ==
  /\ LoyaltyControls
  /\ \E choice \in {Str("all")} \cup
                   {Num(loyaltyPage.locals[k].id) :
                      k \in {n \in DOMAIN loyaltyPage.locals :
                               loyaltyPage.locals[n].owner_name
                                 = Get(user, "username")}} :
       /\ choice # loyaltyPage.selectedLocalId
       /\ LET e == LoyaltyEffects(
                     [loyaltyPage EXCEPT !.selectedLocalId = choice],
                     inflight, accessToken, user, FALSE)
          IN  loyaltyPage' = e.page /\ inflight' = e.inflight
  /\ Len(inflight') <= MaxInFlight
  /\ Counted(Len(inflight))
  /\ UNCHANGED <<timers, orderStatus, ordersPage, offLoyalty,
                 apiVars, authVars>>

\* GET /api/locals/ is answered (part_001:900-918); a single local becomes
\* the selected one, which gives a new fetchData
LoyaltyLocalsSettle ==
  /\ \E i \in DOMAIN inflight :
       /\ inflight[i].kind = "locals"
       /\ \/ \E response \in {BackendLocals, <<BackendLocals[1]>>} :
               LET p1 == [loyaltyPage EXCEPT
                            !.locals = response,
                            !.selectedLocalId =
                               IF Len(response) = 1 THEN Num(response[1].id)
                               ELSE @]
                   e == IF p1.selectedLocalId = loyaltyPage.selectedLocalId
                        THEN [page |-> p1,
                              inflight |-> RemoveAt(inflight, i)]
                        ELSE LoyaltyEffects(p1, RemoveAt(inflight, i),
                                            accessToken, user, FALSE)
               IN  loyaltyPage' = e.page /\ inflight' = e.inflight
          \/ \E err \in Failures :
               /\ loyaltyPage' =
                    [loyaltyPage EXCEPT !.error =
                       DetailsOrFallback(err,
                                         "No pudimos cargar los locales.")]
               /\ inflight' = RemoveAt(inflight, i)
  /\ Len(inflight') <= MaxInFlight
  /\ Counted(Len(inflight) - 1)
  /\ UNCHANGED <<timers, orderStatus, ordersPage, offLoyalty,
                 apiVars, authVars>>

\* the four requests of fetchData are answered (part_001:978-1002)
LoyaltyFetchSettle ==
  /\ \E i \in DOMAIN inflight :
       /\ inflight[i].kind = "points"
       /\ inflight' = RemoveAt(inflight, i)
       /\ \/ loyaltyPage' = [loyaltyPage EXCEPT !.loading = FALSE,
                                                !.refreshing = FALSE]
          \/ \E err \in Failures :
               loyaltyPage' =
                 [loyaltyPage EXCEPT
                    !.error = DetailsOrFallback(err,
                                "No pudimos cargar los datos de lealtad."),
                    !.loading = FALSE,
                    !.refreshing = FALSE]
  /\ UNCHANGED <<requestsSent, timers, orderStatus, ordersPage, offLoyalty,
                 apiVars, authVars>>

\* what the owner can type in the two inputs of the form
\* (part_001:1345-1372): a field and its value
AdjustInputs ==
  {<<"username", v>> : v \in {<<>>, <<" ">>, <<"a", "n", "a">>}}
  \cup {<<"delta", v>> :
          v \in {<<>>, <<"5">>, <<"-", "5">>, <<"1", ".", "5">>}}

\* an input of the adjustment form changes
AdjustChange ==
  /\ LoyaltyControls
  /\ \E input \in AdjustInputs :
       loyaltyPage' = [loyaltyPage EXCEPT !.adjustForm[input[1]] = input[2]]
  /\ UNCHANGED <<ordersVars, offLoyalty, apiVars, authVars>>

\* handleAdjustPoints (part_001:1039-1084) up to its request, from the
\* button of part_001:1379-1385
AdjustSubmit ==
  /\ LoyaltyControls
  /\ ~loyaltyPage.adjusting
  /\ loyaltyPage.selectedLocalId # Str("all")
  /\ IF ~Truthy(accessToken)
     THEN UNCHANGED <<loyaltyPage, inflight>>
     ELSE IF loyaltyPage.selectedLocalId = Str("all")
     THEN /\ loyaltyPage' =
               [loyaltyPage EXCEPT !.adjustFeedback =
                  Str("Selecciona un local para ajustar puntos.")]
          /\ inflight' = inflight
     ELSE IF Trim(loyaltyPage.adjustForm.username) = <<>>
             \/ parseInt(loyaltyPage.adjustForm.delta) = NaN
     THEN /\ loyaltyPage' =
               [loyaltyPage EXCEPT !.adjustFeedback =
                  Str("Completa usuario y puntos a ajustar.")]
          /\ inflight' = inflight
     ELSE /\ loyaltyPage' = [loyaltyPage EXCEPT !.adjustFeedback = Null,
                                                !.adjusting = TRUE]
          /\ inflight' =
               Append(inflight,
                      [kind |-> "adjust",
                       closure |-> [token |-> accessToken,
                                    local |-> loyaltyPage.selectedLocalId],
                       body |-> [local |-> loyaltyPage.selectedLocalId,
                                 username |->
                                   Trim(loyaltyPage.adjustForm.username),
                                 delta |->
                                   parseInt(loyaltyPage.adjustForm.delta)]])
  /\ Len(inflight') <= MaxInFlight
  /\ Counted(Len(inflight))
  /\ UNCHANGED <<timers, orderStatus, ordersPage, offLoyalty,
                 apiVars, authVars>>

\* POST /api/points/adjust/ is answered (part_001:1066-1081): on success
\* the form is emptied and the fetchData of the submitting render runs
AdjustSettle ==
  /\ \E i \in DOMAIN inflight :
       /\ inflight[i].kind = "adjust"
       /\ \/ LET e == LoyaltyFetch(
                        [loyaltyPage EXCEPT
                           !.adjustFeedback =
                              Str("Puntos actualizados correctamente."),
                           !.adjustForm = [username |-> <<>>,
                                           delta |-> <<>>],
                           !.adjusting = FALSE],
                        RemoveAt(inflight, i), inflight[i].closure.token,
                        inflight[i].closure.local, FALSE)
             IN  loyaltyPage' = e.page /\ inflight' = e.inflight
          \/ \E err \in Failures :
               /\ loyaltyPage' =
                    [loyaltyPage EXCEPT
                       !.adjustFeedback =
                          DetailsOrFallback(err,
                                            "No se pudo ajustar el saldo."),
                       !.adjusting = FALSE]
               /\ inflight' = RemoveAt(inflight, i)
  /\ Counted(Len(inflight) - 1)
  /\ UNCHANGED <<timers, orderStatus, ordersPage, offLoyalty,
                 apiVars, authVars>>

\* the page is not open
LoyaltyIdle == loyaltyPage = LoyaltyInitialState

-----------------------------------------------------------------------------
(* The dashboard shell (part_002:17-32) and the dashboard page
   (dashboard/config.ts:630-663): the configuration and the label of a role *)

\* what every object literal inherits from Object.prototype: a function
Inherited == [t |-> "function"]
ObjectPrototype == {"constructor", "toString", "valueOf", "hasOwnProperty"}

\* table[key] for an object literal and a string key: an own property, else
\* an inherited one, else undefined
Property(table, key) ==
  IF key.str \in DOMAIN table THEN table[key.str]
  ELSE IF key.str \in ObjectPrototype THEN Inherited
  ELSE Undefined

\* dashboard/config.ts:44-154, by its title and the links of its navigation
DEFAULT_CONFIG ==
  Obj([heroTitle |-> Str("Panel Coffeefy"),
       metrics |-> Str("metrics of the default panel"),
       navigation |-> Str("navigation of the default panel")])

\* the configuration of a role with entries of its own
ConfigOf(role, title) ==
  Obj([heroTitle |-> Str(title),
       metrics |-> Str("metrics of " \o role),
       navigation |-> Str("navigation of " \o role)])

ROLE_CONFIG ==
  [default |-> DEFAULT_CONFIG,
   cliente |-> DEFAULT_CONFIG,
   cafeteria |-> ConfigOf("cafeteria", "Panel de cafetería"),
   tostaduria |-> ConfigOf("tostaduria", "Panel de tostaduría"),
   hibrido |-> ConfigOf("hibrido", "Panel híbrido"),
   admin |-> ConfigOf("admin", "Panel administrativo")]

ROLE_LABELS ==
  [default |-> Str("Operación"),
   cliente |-> Str("Cliente"),
   cafeteria |-> Str("Cafetería"),
   tostaduria |-> Str("Tostaduría"),
   hibrido |-> Str("Híbrido"),
   admin |-> Str("Administrador")]

\* the role of the user the components get from useAuth: user?.role
RoleOf(usr) == IF usr \in {Null, Undefined} THEN Undefined ELSE Get(usr, "role")

\* DashboardLayout, part_002:26-29
LayoutView(usr) ==
  LET roleKey == Coalesce(RoleOf(usr), Str("default"))
  IN  [roleLabel |-> Coalesce(Property(ROLE_LABELS, roleKey),
                              ROLE_LABELS.default),
       sectionNavigation |->
         Coalesce(Get(Property(ROLE_CONFIG, roleKey), "navigation"),
                  Get(ROLE_CONFIG.default, "navigation"))]

\* DashboardPage, dashboard/config.ts:631-682: the sign-in card without a
\* user, else the panel of the role; the render throws where it maps the
\* metrics of a configuration that has none
PageView(usr) ==
  IF ~Truthy(usr) THEN [panel |-> "sign in"]
  ELSE LET roleKey == Coalesce(RoleOf(usr), Str("cliente"))
           config == Coalesce(Property(ROLE_CONFIG, roleKey),
                              ROLE_CONFIG.default)
           roleLabel == Coalesce(Property(ROLE_LABELS, roleKey),
                                 ROLE_LABELS.default)
       IN  IF Get(config, "metrics") = Undefined
           THEN [panel |-> "TypeError"]   \* config.metrics.map(...)
           ELSE [panel |-> "dashboard", config |-> config,
                 roleLabel |-> roleLabel]

\* the roles a user object can carry (role?: string, auth-context.tsx:14-17)
RoleValues ==
  {Undefined, Null, Str("cliente"), Str("cafeteria"), Str("tostaduria"),
   Str("hibrido"), Str("admin"), Str("barista"), Str("default"),
   Str("constructor")}

\* nothing of the dashboard is rendered
DashboardInitialState ==
  [isSidebarOpen |-> FALSE, layout |-> NotRendered, page |-> NotRendered]

\* the shell renders for the user of the session
RenderLayout ==
  /\ hydrated
  /\ dashboard.layout = NotRendered
  /\ dashboard' = [dashboard EXCEPT !.layout = LayoutView(user)]
  /\ UNCHANGED <<walletPage, localPage, ordersVars, walletVars, catalogVars,
                 loyaltyPage, apiVars, authVars>>

\* the page inside the shell renders for the same user
RenderPage ==
  /\ hydrated
  /\ dashboard.page = NotRendered
  /\ dashboard' = [dashboard EXCEPT !.page = PageView(user)]
  /\ UNCHANGED <<walletPage, localPage, ordersVars, walletVars, catalogVars,
                 loyaltyPage, apiVars, authVars>>

\* the menu button and the close controls of the sidebar (part_002:37-70)
SetSidebar ==
  /\ dashboard.layout # NotRendered
  /\ dashboard' = [dashboard EXCEPT !.isSidebarOpen = ~@]
  /\ UNCHANGED <<walletPage, localPage, ordersVars, walletVars, catalogVars,
                 loyaltyPage, apiVars, authVars>>

\* the dashboard is not open
DashboardIdle == dashboard = DashboardInitialState

-----------------------------------------------------------------------------
(* ClientWalletPage (frontend/src/app/cliente/page.tsx:156-400): the
   requests of the customer wallet, its selector and its menus *)

\* bounds on the requests of the wallet: those that await their answer at
\* the same time, and those the page sends in one run of the model
MaxWalletInFlight == 4
MaxWalletRequests == 8

\* the requests the step adds are counted, up to the bounds
WalletCounted(before) ==
  /\ Len(inflight') <= MaxWalletInFlight
  /\ requestsSent' = requestsSent + (Len(inflight') - before)
  /\ requestsSent' <= MaxWalletRequests

\* the locals the backend can list: two that serve coffee and a roastery
Alma == <<"a", "l", "m", "a">>
WalletLocalPool ==
  <<[id |-> 1, name |-> Cafe, type |-> "cafeteria"],
    [id |-> 2, name |-> Alma, type |-> "hibrido"],
    [id |-> 3, name |-> Te, type |-> "tostaduria"]>>

\* the products of the locals: local 1 sells an active and a retired
\* product, the other locals nothing
WalletProducts ==
  <<[id |-> 1, local |-> 1, is_active |-> TRUE],
    [id |-> 2, local |-> 1, is_active |-> FALSE]>>

\* what the backend holds for the customer: the locals it lists, and the
\* locals of the balances and of the rewards of the customer
WalletWorlds ==
  {[locals |-> <<WalletLocalPool[1]>>, balances |-> <<>>, rewards |-> <<>>],
   [locals |-> <<WalletLocalPool[1], WalletLocalPool[2]>>,
    balances |-> <<WalletLocalPool[2]>>, rewards |-> <<>>],
   [locals |-> <<WalletLocalPool[1], WalletLocalPool[3]>>,
    balances |-> <<WalletLocalPool[2], WalletLocalPool[3]>>,
    rewards |-> <<WalletLocalPool[3]>>]}

\* how a request of the wallet fails: the network is down
WalletFailures == {PlatformError("TypeError")}

\* the hooks of the page at its first render (cliente/page.tsx:159-180)
WalletInitialState ==
  [mounted |-> FALSE,
   balances |-> <<>>,
   rewards |-> <<>>,
   locals |-> <<>>,
   localsLoading |-> TRUE,
   localsError |-> Null,
   expandedLocals |-> <<>>,
   catalogs |-> <<>>,
   catalogLoading |-> <<>>,
   catalogErrors |-> <<>>,
   selectedLocalId |-> Str("all"),
   loading |-> TRUE,
   refreshing |-> FALSE,
   error |-> Null]

\* the result of an operator for a value that is computed once
Once(value, Op(_)) == CHOOSE r \in {Op(v) : v \in {value}} : TRUE

\* the sorted array with the item put after the items named before it
SortedInsert(sorted, item) ==
  LET k == Cardinality({i \in DOMAIN sorted :
             localeCompare(sorted[i].name, item.name) < 0})
  IN  SubSeq(sorted, 1, k) \o <<item>> \o SubSeq(sorted, k + 1, Len(sorted))

\* items.sort((a, b) => a.name.localeCompare(b.name)): the order is total
\* on the names, so every stable sort gives the same array
RECURSIVE SortByName(_)
SortByName(items) ==
  Once(items, LAMBDA v :
    IF v = <<>> THEN <<>>
    ELSE Once(SortByName(Tail(v)), LAMBDA rest : SortedInsert(rest, Head(v))))

\* the values of a Map filled with map.set(entry.id, entry): one entry for
\* each id, where the id was first set, with the value set last
RECURSIVE MapValuesFrom(_, _)
MapValuesFrom(entries, i) ==
  IF i > Len(entries) THEN <<>>
  ELSE IF \E j \in 1..(i - 1) : entries[j].id = entries[i].id
  THEN MapValuesFrom(entries, i + 1)
  ELSE LET last == CHOOSE k \in i..Len(entries) :
                     /\ entries[k].id = entries[i].id
                     /\ \A j \in (k + 1)..Len(entries) :
                          entries[j].id # entries[i].id
       IN  <<entries[last]>> \o MapValuesFrom(entries, i + 1)

MapValues(entries) == Once(entries, LAMBDA v : MapValuesFrom(v, 1))

\* cliente/page.tsx:191-204; a balance and a reward carry the id and the
\* name of their local
localOptions(p) ==
  SortByName(MapValues(
    [i \in DOMAIN p.locals |->
       [id |-> p.locals[i].id, name |-> p.locals[i].name]]
    \o [i \in DOMAIN p.balances |->
          [id |-> p.balances[i].id, name |-> p.balances[i].name]]
    \o [i \in DOMAIN p.rewards |->
          [id |-> p.rewards[i].id, name |-> p.rewards[i].name]]))

\* the ids in an array of ids or of locals
Ids(items) == {items[i].id : i \in DOMAIN items}

\* fetchWalletData (cliente/page.tsx:213-277) up to its requests, with the
\* selected local of its closure: the page and the requests afterwards
fetchWalletData(p, fl, token, local, initial) ==
  IF ~Truthy(token) THEN [page |-> p, inflight |-> fl]
  ELSE [page |-> IF initial THEN [p EXCEPT !.error = Null, !.loading = TRUE]
                 ELSE [p EXCEPT !.error = Null, !.refreshing = TRUE],
        inflight |-> Append(fl, [kind |-> "wallet", local |-> local])]

\* fetchLocals (cliente/page.tsx:279-302) up to its request
fetchLocals(p, fl) ==
  [page |-> [p EXCEPT !.localsLoading = TRUE, !.localsError = Null],
   inflight |-> Append(fl, [kind |-> "locals"])]

\* obj[key] of a record of the state keyed by the id of a local
At(map, id) == IF id \in DOMAIN map THEN map[id] ELSE Undefined

\* { ...prev } without the key
Without(map, id) == [k \in DOMAIN map \ {id} |-> map[k]]

\* loadCatalog without its test of the catalogs already loaded
loadCatalogAgain(p, fl, catalogs, localId) ==
  [page |-> [p EXCEPT
               !.catalogLoading = Put(@, localId, TRUE),
               !.catalogErrors = Without(@, localId)],
   inflight |-> Append(fl, [kind |-> "catalog", local |-> localId])]

\* loadCatalog (cliente/page.tsx:304-346) up to its request, with the
\* catalogs of its closure
loadCatalog(p, fl, catalogs, localId) ==
  IF Truthy(At(catalogs, localId)) THEN [page |-> p, inflight |-> fl]
  ELSE [page |-> [p EXCEPT
                    !.catalogLoading = Put(@, localId, TRUE),
                    !.catalogErrors = Without(@, localId)],
        inflight |-> Append(fl, [kind |-> "catalog", local |-> localId])]

\* the effects of a render (cliente/page.tsx:206-211, 348-356 and 358-369)
\* and of the renders their state updates cause. ranFetch: the session or
\* the selected local changed; ranSingle: locals, expandedLocals or catalogs
\* were set. The auto-select effect depends on nothing but what its
\* condition reads, so it acts whenever the condition holds.
RECURSIVE WalletEffects(_, _, _, _, _, _)
WalletRender(p, fl, token, usr, ranFetch, ranSingle) ==
  LET selected == Once(localOptions(p), LAMBDA options :
                    IF p.selectedLocalId = Str("all") /\ Len(options) = 1
                    THEN Num(options[1].id) ELSE p.selectedLocalId)
      e1 == IF ~ranFetch THEN [page |-> p, inflight |-> fl]
            ELSE IF ~Truthy(usr) \/ ~Truthy(token)
            THEN [page |-> [p EXCEPT !.loading = FALSE,
                                     !.localsLoading = FALSE],
                  inflight |-> fl]
            ELSE LET w == fetchWalletData(p, fl, token, p.selectedLocalId,
                                          TRUE)
                 IN  fetchLocals(w.page, w.inflight)
      onlyLocal == p.locals[1].id
      expanded == IF ranSingle /\ Len(p.locals) = 1
                     /\ \A i \in DOMAIN p.expandedLocals :
                          p.expandedLocals[i] # onlyLocal
                  THEN <<onlyLocal>> ELSE p.expandedLocals
      e2 == IF ranSingle /\ Len(p.locals) = 1
            THEN loadCatalog(e1.page, e1.inflight, p.catalogs, onlyLocal)
            ELSE e1
      next == [e2.page EXCEPT !.selectedLocalId = selected,
                              !.expandedLocals = expanded]
  IN  IF selected = p.selectedLocalId /\ expanded = p.expandedLocals
      THEN [page |-> next, inflight |-> e2.inflight]
      ELSE WalletEffects(next, e2.inflight, token, usr,
                         selected # p.selectedLocalId,
                         expanded # p.expandedLocals)

\* the effects after a render and the renders that follow, for the state
\* and the requests as they are when the render begins
WalletEffects(page, requests, token, usr, ranFetch, ranSingle) ==
  Once(<<page, requests, ranFetch, ranSingle>>, LAMBDA at :
    WalletRender(at[1], at[2], token, usr, at[3], at[4]))

\* the page shows the wallet with its selector (cliente/page.tsx:421-449)
WalletControls == walletPage.mounted /\ Truthy(user) /\ ~walletPage.loading

\* the step leads to the page and the requests of the outcome
WalletStep(outcome) ==
  /\ \E e \in {outcome} :
       /\ walletPage' = e.page
       /\ inflight' = e.inflight
  /\ UNCHANGED <<dashboard, localPage, timers, orderStatus, ordersPage,
                 walletVars, catalogVars, loyaltyPage, apiVars, authVars>>

\* the page is opened
WalletMount ==
  /\ ~walletPage.mounted
  /\ WalletStep(WalletEffects([WalletInitialState EXCEPT !.mounted = TRUE],
                              inflight, accessToken, user, TRUE, TRUE))
  /\ WalletCounted(Len(inflight))

\* the selector of the local is set to the choice (cliente/page.tsx:482-498)
WalletSelect(choice) ==
  /\ choice # walletPage.selectedLocalId
  /\ WalletStep(WalletEffects([walletPage EXCEPT !.selectedLocalId = choice],
                              inflight, accessToken, user, TRUE, FALSE))
  /\ WalletCounted(Len(inflight))

\* the user chooses 'Todos' or one of the locals the selector offers
WalletSelectLocal ==
  /\ WalletControls
  /\ \E choice \in {Str("all")}
                   \cup {Num(id) : id \in Ids(localOptions(walletPage))} :
       WalletSelect(choice)

\* handleRefresh (cliente/page.tsx:371-373), from the button of 500-507
WalletRefresh ==
  /\ WalletControls
  /\ ~walletPage.refreshing
  /\ WalletStep(fetchWalletData(walletPage, inflight, accessToken,
                                walletPage.selectedLocalId, FALSE))
  /\ WalletCounted(Len(inflight))

\* handleRefreshLocals (cliente/page.tsx:375-377), from the button shown
\* with the error of the list (cliente/page.tsx:577-588)
WalletRefreshLocals ==
  /\ WalletControls
  /\ Truthy(walletPage.localsError)
  /\ WalletStep(fetchLocals(walletPage, inflight))
  /\ WalletCounted(Len(inflight))

\* the ids of the expanded locals
Expanded(p) == {p.expandedLocals[i] : i \in DOMAIN p.expandedLocals}

\* handleToggleLocal (cliente/page.tsx:379-391) and the effects after it
WalletToggle(localId) ==
  LET prev == walletPage.expandedLocals
      RECURSIVE Others(_)
      Others(i) == IF i > Len(prev) THEN <<>>
                   ELSE IF prev[i] # localId THEN <<prev[i]>> \o Others(i + 1)
                   ELSE Others(i + 1)
      toggled == IF localId \in Expanded(walletPage) THEN Others(1)
                 ELSE Append(prev, localId)
      l == loadCatalog([walletPage EXCEPT !.expandedLocals = toggled],
                       inflight, walletPage.catalogs, localId)
  IN  /\ WalletStep(WalletEffects(l.page, l.inflight, accessToken, user,
                                  FALSE, TRUE))
      /\ WalletCounted(Len(inflight))

\* the button 'Ver menú' / 'Ocultar menú' of a listed local
\* (cliente/page.tsx:726-732)
WalletToggleLocal ==
  /\ WalletControls
  /\ ~walletPage.localsLoading
  /\ \E localId \in Ids(walletPage.locals) : WalletToggle(localId)

\* the three requests of fetchWalletData are answered (cliente/page.tsx:
\* 237-275): the balances and rewards of the local asked for, or an error
WalletDataSettle ==
  /\ \E i \in DOMAIN inflight :
       /\ inflight[i].kind = "wallet"
       /\ LET asked(items) ==
                IF inflight[i].local = Str("all") THEN items
                ELSE Filter(items, {inflight[i].local.num})
              done(p) == [p EXCEPT !.loading = FALSE, !.refreshing = FALSE]
          IN  \/ WalletStep(WalletEffects(
                   done([walletPage EXCEPT
                           !.balances = asked(backend.balances),
                           !.rewards = asked(backend.rewards)]),
                   RemoveAt(inflight, i), accessToken, user, FALSE, FALSE))
              \/ \E err \in WalletFailures :
                   WalletStep(
                     [page |-> done([walletPage EXCEPT !.error =
                                 DetailsOrFallback(err,
                                   "No pudimos cargar tus datos.")]),
                      inflight |-> RemoveAt(inflight, i)])
  /\ WalletCounted(Len(inflight) - 1)

\* GET /api/locals/ is answered (cliente/page.tsx:282-301): the locals that
\* serve coffee, by name, or an error
WalletLocalsSettle ==
  /\ \E i \in DOMAIN inflight :
       /\ inflight[i].kind = "locals"
       /\ \/ WalletStep(WalletEffects(
               [walletPage EXCEPT
                  !.locals = SortByName(Filter(backend.locals,
                               {backend.locals[k].id :
                                  k \in {n \in DOMAIN backend.locals :
                                    backend.locals[n].type
                                      \in {"cafeteria", "hibrido"}}})),
                  !.localsLoading = FALSE],
               RemoveAt(inflight, i), accessToken, user, FALSE, TRUE))
          \/ \E err \in WalletFailures :
               WalletStep(
                 [page |-> [walletPage EXCEPT
                              !.localsError = DetailsOrFallback(err,
                                 "No pudimos listar las cafeterías."),
                              !.localsLoading = FALSE],
                  inflight |-> RemoveAt(inflight, i)])
  /\ WalletCounted(Len(inflight) - 1)

\* GET /api/products/?local=... is answered (cliente/page.tsx:321-344): the
\* active products of the local, or an error
WalletCatalogSettle ==
  /\ \E i \in DOMAIN inflight :
       /\ inflight[i].kind = "catalog"
       /\ LET localId == inflight[i].local
              response == Filter(backend.products,
                            {backend.products[k].id :
                               k \in {n \in DOMAIN backend.products :
                                 backend.products[n].local = localId}})
              activeProducts ==
                Filter(response,
                       {response[k].id :
                          k \in {n \in DOMAIN response :
                                   response[n].is_active # FALSE}})
              done(p) == [p EXCEPT !.catalogLoading = Put(@, localId, FALSE)]
          IN  \/ WalletStep(WalletEffects(
                   done([walletPage EXCEPT !.catalogs =
                           Put(@, localId, Arr(activeProducts))]),
                   RemoveAt(inflight, i), accessToken, user, FALSE, TRUE))
              \/ \E err \in WalletFailures :
                   WalletStep(
                     [page |-> done([walletPage EXCEPT !.catalogErrors =
                                 Put(@, localId,
                                     DetailsOrFallback(err,
                                       "No pudimos cargar el catálogo."))]),
                      inflight |-> RemoveAt(inflight, i)])
  /\ WalletCounted(Len(inflight) - 1)

\* the wallet is not open
WalletPageIdle == walletPage = WalletInitialState

-----------------------------------------------------------------------------
(* LocalDashboardPage (frontend/src/app/register/page.tsx:141-630): the
   profile of a local, its location form and its opening hours *)

\* register/page.tsx:141-149
WEEK_DAYS ==
  <<"monday", "tuesday", "wednesday", "thursday", "friday", "saturday",
    "sunday">>

\* register/page.tsx:153-161
DAY_LABELS ==
  [monday |-> "Lunes", tuesday |-> "Martes", wednesday |-> "Miércoles",
   thursday |-> "Jueves", friday |-> "Viernes", saturday |-> "Sábado",
   sunday |-> "Domingo"]

\* typeof v === "string", "boolean"; typeof v === "object" holds of objects,
\* of arrays and of null
IsStr(v) == DOMAIN v = {"str"}
IsBool(v) == DOMAIN v = {"bool"}
TypeofObject(v) == IsObj(v) \/ DOMAIN v = {"arr"} \/ v = Null

\* {}
EmptyObject == Obj([k \in {} |-> Undefined])

\* Boolean(v)
Boolean(v) == Bool(Truthy(v))

\* the hours of a day
DayHours(open, close, closed) ==
  Obj([open |-> Str(open), close |-> Str(close), closed |-> Bool(closed)])

\* register/page.tsx:255-266
buildDefaultOpeningHours ==
  Obj([monday |-> DayHours("08:00", "20:00", FALSE),
       tuesday |-> DayHours("08:00", "20:00", FALSE),
       wednesday |-> DayHours("08:00", "20:00", FALSE),
       thursday |-> DayHours("08:00", "20:00", FALSE),
       friday |-> DayHours("08:00", "20:00", FALSE),
       saturday |-> DayHours("09:00", "18:00", FALSE),
       sunday |-> DayHours("09:00", "16:00", TRUE)])

\* a text field read without the test that it is not empty
AnyTextOr(v, default) == IF IsStr(v) THEN v ELSE default

\* typeof v === "string" && v ? v : default (register/page.tsx:278-285)
TextOr(v, default) == IF IsStr(v) /\ Truthy(v) THEN v ELSE default

\* register/page.tsx:268-294
normalizeOpeningHours(value) ==
  LET base == buildDefaultOpeningHours
  IN  IF ~Truthy(value) \/ ~TypeofObject(value) THEN base
      ELSE Obj([day \in DOMAIN base.obj |->
                  LET raw == Get(value, day)
                  IN  IF Truthy(raw) /\ TypeofObject(raw)
                      THEN Obj([open |-> TextOr(Get(raw, "open"),
                                                Get(base.obj[day], "open")),
                                close |-> TextOr(Get(raw, "close"),
                                                 Get(base.obj[day], "close")),
                                closed |-> IF IsBool(Get(raw, "closed"))
                                           THEN Get(raw, "closed")
                                           ELSE Boolean(Get(raw, "closed"))])
                      ELSE base.obj[day]])

\* parts.join(separator), as the sequence of the parts and the separators
RECURSIVE Join(_, _)
Join(parts, separator) ==
  IF Len(parts) <= 1 THEN parts
  ELSE <<Head(parts), separator>> \o Join(Tail(parts), separator)

\* register/page.tsx:296-304; a template literal is the sequence of its
\* pieces
buildScheduleSummary(hours) ==
  Join([i \in DOMAIN WEEK_DAYS |->
          LET day == WEEK_DAYS[i]
              info == Get(hours, day)
          IN  IF ~Truthy(info) \/ Truthy(Get(info, "closed"))
              THEN <<DAY_LABELS[day], ": Cerrado">>
              ELSE <<DAY_LABELS[day], ": ", Get(info, "open"), " - ",
                     Get(info, "close")>>],
       " · ")

\* the hooks of the page at its first render (register/page.tsx:316-360)
LocalInitialState ==
  [mounted |-> FALSE,
   loading |-> TRUE,
   activeLocal |-> Null,
   locationForm |-> [latitude |-> <<>>, longitude |-> <<>>],
   openingHours |-> buildDefaultOpeningHours,
   savingSection |-> Null,
   error |-> Null]

\* String(v) of a coordinate the backend holds, or "" when it holds none
\* (register/page.tsx:439-446)
CoordinateText(v) == IF v \in {Null, Undefined} THEN <<>> ELSE String(v.num)

\* the effect of register/page.tsx:408-456 for a new activeLocal
LocalForms(p, local) ==
  [p EXCEPT
     !.activeLocal = local,
     !.locationForm = [latitude |-> CoordinateText(Get(local, "latitude")),
                       longitude |-> CoordinateText(Get(local, "longitude"))],
     !.openingHours =
        normalizeOpeningHours(Coalesce(Get(local, "opening_hours"),
                                       EmptyObject))]

\* the step leaves everything but the profile page and its requests
LocalFrame ==
  UNCHANGED <<dashboard, walletPage, timers, orderStatus, ordersPage,
              walletVars, catalogVars, loyaltyPage, apiVars, authVars>>

\* the page is opened by a signed-in owner: fetchData
\* (register/page.tsx:366-403) sends its requests
LocalMount ==
  /\ ~localPage.mounted
  /\ Truthy(user) /\ Truthy(accessToken)
  /\ localPage' = [localPage EXCEPT !.mounted = TRUE]
  /\ inflight' = Append(inflight, [kind |-> "profile"])
  /\ Len(inflight') <= MaxInFlight
  /\ Counted(Len(inflight))
  /\ LocalFrame

\* the requests of fetchData are answered (register/page.tsx:376-401): with
\* the local of the owner, which becomes the active one, or with an error
LocalDataAnswer(ok) ==
  /\ \E i \in DOMAIN inflight :
       /\ inflight[i].kind = "profile"
       /\ inflight' = RemoveAt(inflight, i)
       /\ IF ok
          THEN localPage' = [LocalForms(localPage, backend.profile)
                               EXCEPT !.loading = FALSE]
          ELSE \E err \in Failures :
                 localPage' =
                   [localPage EXCEPT
                      !.error = DetailsOrFallback(err,
                         "No pudimos cargar la información del local."),
                      !.loading = FALSE]
  /\ Counted(Len(inflight) - 1)
  /\ LocalFrame

LocalDataSettle == \E ok \in BOOLEAN : LocalDataAnswer(ok)

\* the forms of the active local are shown
LocalControls ==
  localPage.mounted /\ ~localPage.loading /\ Truthy(localPage.activeLocal)

\* what the owner types in a field of the location form
LocationInputs == {<<>>, <<" ">>, <<"7">>, <<"-", "3">>, <<"a">>}

\* the inputs of latitude and longitude (register/page.tsx:1265-1292)
LocationChange ==
  /\ LocalControls
  /\ \E field \in {"latitude", "longitude"}, value \in LocationInputs :
       /\ localPage.locationForm[field] # value
       /\ localPage' = [localPage EXCEPT !.locationForm[field] = value]
  /\ UNCHANGED <<inflight, requestsSent>>
  /\ LocalFrame

\* Number.isNaN(n) ? null : n
NullIfNaN(n) == IF n = NaN THEN Null ELSE n

\* updateLocal (register/page.tsx:466-480) up to its request
updateLocal(fields, section) ==
  IF ~Truthy(accessToken)
  THEN /\ localPage' =
            [localPage EXCEPT !.error =
               Str("Tu sesión expiró. Inicia sesión nuevamente.")]
       /\ inflight' = inflight
  ELSE /\ localPage' = [localPage EXCEPT !.savingSection = Str(section),
                                         !.error = Null]
       /\ inflight' = Append(inflight, [kind |-> "save", section |-> section,
                                        body |-> fields])

\* handleLocationSubmit (register/page.tsx:560-577), from the button of
\* register/page.tsx:1226-1232
LocationSubmit ==
  /\ LocalControls
  /\ localPage.savingSection # Str("location")
  /\ updateLocal(
       [latitude |-> NullIfNaN(Number(Trim(localPage.locationForm.latitude))),
        longitude |->
          NullIfNaN(Number(Trim(localPage.locationForm.longitude)))],
       "location")
  /\ Len(inflight') <= MaxInFlight
  /\ Counted(Len(inflight))
  /\ LocalFrame

\* what the owner sets in the schedule form: a day, a field and its value
HourInputs ==
  {<<"monday", "open", Str("")>>, <<"monday", "open", Str("07:00")>>,
   <<"sunday", "closed", Bool(FALSE)>>, <<"sunday", "closed", Bool(TRUE)>>}

\* handleOpeningHourChange (register/page.tsx:610-621)
HourChange ==
  /\ LocalControls
  /\ \E input \in HourInputs :
       LET day == input[1]
           changed == Obj(Put(localPage.openingHours.obj[day].obj, input[2],
                              IF input[2] = "closed" THEN Boolean(input[3])
                              ELSE input[3]))
       IN  /\ localPage.openingHours.obj[day] # changed
           /\ localPage' = [localPage EXCEPT
                              !.openingHours = Obj(Put(@.obj, day, changed))]
  /\ UNCHANGED <<inflight, requestsSent>>
  /\ LocalFrame

\* handleScheduleSubmit (register/page.tsx:594-608), from the button of
\* register/page.tsx:1122-1128
ScheduleSubmit ==
  /\ LocalControls
  /\ localPage.savingSection # Str("schedule")
  /\ updateLocal(
       [opening_hours |-> localPage.openingHours,
        schedule |-> buildScheduleSummary(localPage.openingHours)],
       "schedule")
  /\ Len(inflight') <= MaxInFlight
  /\ Counted(Len(inflight))
  /\ LocalFrame

\* PATCH /api/locals/{id}/ is answered (register/page.tsx:481-513): the
\* backend stores the fields sent and returns the local; the page takes it
\* as its active local, which runs the effect of the forms again
LocalSaveAnswer(ok) ==
  /\ \E i \in DOMAIN inflight :
       /\ inflight[i].kind = "save"
       /\ inflight' = RemoveAt(inflight, i)
       /\ IF ok
          THEN LET updated == Obj(Merge(backend.profile.obj,
                                        inflight[i].body))
               IN  /\ backend' = [backend EXCEPT !.profile = updated]
                   /\ localPage' = [LocalForms(localPage, updated)
                                      EXCEPT !.savingSection = Null]
          ELSE /\ UNCHANGED backend
               /\ \E err \in Failures :
                    localPage' =
                      [localPage EXCEPT
                         !.error = DetailsOrFallback(err,
                            "No pudimos guardar los cambios."),
                         !.savingSection = Null]
  /\ Counted(Len(inflight) - 1)
  /\ UNCHANGED <<dashboard, walletPage, timers, orderStatus, ordersPage,
                 walletVars, catalogPage, visibleProducts, loyaltyPage,
                 apiVars, authVars>>

LocalSaveSettle == \E ok \in BOOLEAN : LocalSaveAnswer(ok)

\* the profile page is not open
LocalIdle == localPage = LocalInitialState

\* the dashboard shell, the wallet page and the profile page are not open
PanelsIdle == DashboardIdle /\ WalletPageIdle /\ LocalIdle

\* no page is open
PagesIdle ==
  OrdersIdle /\ WalletIdle /\ CatalogIdle /\ LoyaltyIdle /\ PanelsIdle

-----------------------------------------------------------------------------
(* Specifications *)

InitUsers == users = [u \in Usernames |-> IF u = "ana" THEN Str("cliente")
                                          ELSE Undefined]

\* the provider with whatever the storage key held before, and operations
\* overlapping freely
Init ==
  /\ Mounted
  /\ PagesIdle
  /\ API_BASE_URL = DefaultBase
  /\ storage \in StoredValues
  /\ InitUsers

Next ==
  \/ Hydrate
  \/ LoginSubmit
  \/ TokenSettle
  \/ ProfileSettle
  \/ RegisterSubmit
  \/ CreateSettle
  \/ Logout
  \/ Reload

Spec == Init /\ [][Next]_vars

\* first visit, and each operation finishes before the next starts
InitSeq ==
  /\ Mounted
  /\ PagesIdle
  /\ API_BASE_URL = DefaultBase
  /\ storage = Null
  /\ InitUsers

LogoutIdle == pc = "idle" /\ Logout
ReloadIdle == pc = "idle" /\ Reload

NextSeq ==
  \/ Hydrate
  \/ LoginSubmit
  \/ TokenSettle
  \/ ProfileSettle
  \/ RegisterSubmit
  \/ CreateSettle
  \/ LogoutIdle
  \/ ReloadIdle

SpecSeq == InitSeq /\ [][NextSeq]_vars

\* the helper alone
InitApi ==
  /\ Mounted
  /\ PagesIdle
  /\ API_BASE_URL \in Bases
  /\ storage = Null
  /\ InitUsers

NextApi == CallPath \/ CallOptions

SpecApi == InitApi /\ [][NextApi]_vars

\* the orders console under a session that changes
InitOrders ==
  /\ Mounted
  /\ OrdersClosed
  /\ orderStatus \in OrdersAtStart
  /\ WalletIdle
  /\ CatalogIdle
  /\ LoyaltyIdle
  /\ PanelsIdle
  /\ API_BASE_URL = DefaultBase
  /\ storage = Null
  /\ InitUsers

NextOrders ==
  \/ OrdersMount
  \/ OrdersSession
  \/ SelectLocal
  \/ SelectSince
  \/ SelectStatus
  \/ Refresh
  \/ PollTick
  \/ StatusUpdate
  \/ UpdateSettle
  \/ FetchSettle
  \/ LocalsSettle
  \/ OrdersUnmount

SpecOrders == InitOrders /\ [][NextOrders]_vars

\* the wallet renders the catalog of a local, whatever the backend sent
InitGroups ==
  /\ Mounted
  /\ OrdersIdle
  /\ API_BASE_URL = DefaultBase
  /\ storage = Null
  /\ InitUsers
  /\ CatalogIdle
  /\ LoyaltyIdle
  /\ PanelsIdle
  /\ catalog \in {Arr(products) : products \in Catalogs} \cup {Null}
  /\ groups = NotRendered

NextGroups == RenderGroups

SpecGroups == InitGroups /\ [][NextGroups]_vars

\* a user has signed in before the page opens (auth-context.tsx:76-90 and
\* 207): the provider holds the session and has persisted it
SignedIn(username) ==
  /\ hydrated = TRUE
  /\ loading = FALSE
  /\ error = Null
  /\ tokens = TokensFor(username)
  /\ user = UserItem(username)
  /\ storage = persist(TokensFor(username), UserItem(username))
  /\ router = <<>>
  /\ pc = "idle"
  /\ caller = "none"
  /\ payload = NoPayload
  /\ tokenResponse = Undefined
  /\ localError = Null
  /\ call = NoCall
  /\ result = NoCall

\* the catalog page opened by either owner of locals, whatever the backend
\* lists
InitCatalogView ==
  /\ users = [u \in Usernames |-> Str("cafeteria")]
  /\ API_BASE_URL = DefaultBase
  /\ \E u \in Usernames : SignedIn(u)
  /\ OrdersIdle
  /\ WalletIdle
  /\ CatalogClosed
  /\ LoyaltyIdle
  /\ PanelsIdle
  /\ backend \in {[locals |-> BackendLocals,
                   categories |-> BackendCategories,
                   products |-> products] : products \in ProductLists}

NextCatalogView ==
  \/ CatalogMount
  \/ LoadSettle
  \/ ToggleStockFilter
  \/ SetSearchTerm
  \/ SetCategoryFilter
  \/ ClearFilters

SpecCatalogView == InitCatalogView /\ [][NextCatalogView]_vars

\* the catalog page opened by either owner to fill and submit the form
InitCatalog ==
  /\ users = [u \in Usernames |-> Str("cafeteria")]
  /\ API_BASE_URL = DefaultBase
  /\ \E u \in Usernames : SignedIn(u)
  /\ OrdersIdle
  /\ WalletIdle
  /\ CatalogClosed
  /\ LoyaltyIdle
  /\ PanelsIdle
  /\ backend = CatalogAtStart

NextCatalog ==
  \/ CatalogMount
  \/ LoadSettle
  \/ ToggleForm
  \/ CancelForm
  \/ FormChange
  \/ EditProduct
  \/ SubmitProduct
  \/ WriteSettle
  \/ RefreshSettle

\* the owner uses the buttons of the rows and saves the form it opened on a
\* row
NextCatalogRows ==
  \/ CatalogMount
  \/ LoadSettle
  \/ EditProduct
  \/ SubmitProduct
  \/ ToggleActive
  \/ StockAdjust
  \/ ToggleAvailability
  \/ WriteSettle
  \/ RefreshSettle

SpecCatalogRows == InitCatalog /\ [][NextCatalogRows]_vars

SpecCatalog == InitCatalog /\ [][NextCatalog]_vars

\* the stock buttons of the catalog page of ana, with two tracked products
InitStock ==
  /\ users = [u \in Usernames |-> Str("cafeteria")]
  /\ API_BASE_URL = DefaultBase
  /\ SignedIn("ana")
  /\ OrdersIdle
  /\ WalletIdle
  /\ CatalogClosed
  /\ LoyaltyIdle
  /\ PanelsIdle
  /\ backend = StockAtStart

\* the backend accepts the write of a row
WriteAccepted == WriteSettle /\ Len(inflight') = Len(inflight)

\* the list of products is loaded again
RefreshLoaded ==
  /\ RefreshSettle
  /\ catalogPage'.products = backend.products
  /\ catalogPage'.error = catalogPage.error

\* every request of a click succeeds
NextStock ==
  \/ CatalogMount
  \/ LoadSettle
  \/ StockAdjust
  \/ WriteAccepted
  \/ RefreshLoaded

SpecStock == InitStock /\ [][NextStock]_vars

\* the wallet of a customer, signed in or not, for what the backend holds
InitWallet ==
  /\ users = [u \in Usernames |-> Str("cliente")]
  /\ API_BASE_URL = DefaultBase
  /\ \/ SignedIn("ana")
     \/ /\ hydrated = TRUE /\ loading = FALSE /\ error = Null
        /\ tokens = Null /\ user = Null /\ storage = Null
        /\ router = <<>> /\ pc = "idle" /\ caller = "none"
        /\ payload = NoPayload /\ tokenResponse = Undefined
        /\ localError = Null /\ call = NoCall /\ result = NoCall
  /\ OrdersIdle
  /\ WalletIdle
  /\ CatalogClosed
  /\ LoyaltyIdle
  /\ PanelsIdle
  /\ \E world \in WalletWorlds :
       backend = [locals |-> world.locals, balances |-> world.balances,
                  rewards |-> world.rewards, products |-> WalletProducts]

NextWallet ==
  \/ WalletMount
  \/ WalletSelectLocal
  \/ WalletRefresh
  \/ WalletRefreshLocals
  \/ WalletToggleLocal
  \/ WalletDataSettle
  \/ WalletLocalsSettle
  \/ WalletCatalogSettle

SpecWallet == InitWallet /\ [][NextWallet]_vars

\* the three pages that fetch for a session are routes of the same
\* application: the browser shows one of them at a time
OnWallet == ~ordersPage.mounted /\ ~loyaltyPage.mounted
OnOrders == ~walletPage.mounted /\ ~loyaltyPage.mounted
OnLoyalty == ~walletPage.mounted /\ ~ordersPage.mounted

\* the worlds of the wallet with more than one selectable local
FetchWorlds == {w \in WalletWorlds : Len(w.balances) > 0}

\* a visitor, signed in or not, opens the wallet, the orders console or the
\* loyalty page
InitFetch ==
  /\ users = [u \in Usernames |-> Str("cafeteria")]
  /\ API_BASE_URL = DefaultBase
  /\ \/ SignedIn("ana")
     \/ /\ hydrated = TRUE /\ loading = FALSE /\ error = Null
        /\ tokens = Null /\ user = Null /\ storage = Null
        /\ router = <<>> /\ pc = "idle" /\ caller = "none"
        /\ payload = NoPayload /\ tokenResponse = Undefined
        /\ localError = Null /\ call = NoCall /\ result = NoCall
  /\ OrdersIdle
  /\ WalletIdle
  /\ CatalogClosed
  /\ LoyaltyIdle
  /\ PanelsIdle
  /\ \E world \in FetchWorlds :
       backend = [locals |-> world.locals, balances |-> world.balances,
                  rewards |-> world.rewards, products |-> WalletProducts]

\* a request of the page shown is answered
FetchSettles ==
  \/ OnWallet /\ WalletDataSettle
  \/ OnWallet /\ WalletLocalsSettle
  \/ OnWallet /\ WalletCatalogSettle
  \/ OnOrders /\ FetchSettle
  \/ OnOrders /\ LocalsSettle
  \/ OnOrders /\ UpdateSettle
  \/ OnLoyalty /\ LoyaltyFetchSettle
  \/ OnLoyalty /\ LoyaltyLocalsSettle

\* the visitor acts while the page has sent few requests, and then waits
\* for the answers
MaxFetchAfter == 3
InBudget == requestsSent <= MaxFetchAfter

NextFetch ==
  \/ OnWallet /\ WalletMount
  \/ OnWallet /\ InBudget /\ WalletSelectLocal
  \/ OnWallet /\ InBudget /\ WalletRefresh
  \/ OnWallet /\ InBudget /\ WalletRefreshLocals
  \/ OnWallet /\ InBudget /\ WalletToggleLocal
  \/ OnWallet /\ WalletDataSettle
  \/ OnWallet /\ WalletLocalsSettle
  \/ OnWallet /\ WalletCatalogSettle
  \/ OnOrders /\ OrdersMount
  \/ OnOrders /\ InBudget /\ ordersPage.mounted /\ OrdersSession
  \/ OnOrders /\ InBudget /\ SelectLocal
  \/ OnOrders /\ InBudget /\ Refresh
  \/ OnOrders /\ InBudget /\ StatusUpdate
  \/ OnOrders /\ FetchSettle
  \/ OnOrders /\ LocalsSettle
  \/ OnOrders /\ UpdateSettle
  \/ OnLoyalty /\ LoyaltyMount
  \/ OnLoyalty /\ InBudget /\ LoyaltySession
  \/ OnLoyalty /\ InBudget /\ LoyaltySelectLocal
  \/ OnLoyalty /\ LoyaltyFetchSettle
  \/ OnLoyalty /\ LoyaltyLocalsSettle

\* every request is answered in the end: while answers can arrive, one of
\* them does
SpecFetch == InitFetch /\ [][NextFetch]_vars /\ WF_vars(FetchSettles)

\* the coordinates the backend can hold for the local
StoredCoordinates == {Null, Num(0), Num(0 - 33)}

\* what the backend can hold for a day of the opening hours: nothing, null,
\* a text, an empty object, full hours, hours with an empty and a wrong
\* field, a closed mark that is not a boolean, hours without a closed mark
RawDays ==
  {Undefined, Null, Str("cerrado"), EmptyObject,
   DayHours("10:00", "14:00", TRUE),
   Obj([open |-> Str(""), close |-> Num(5)]),
   Obj([closed |-> Str("si")]),
   Obj([open |-> Str("10:00"), close |-> Str("14:00")])}

\* what the backend can hold as opening hours: no object, or an object with
\* what it holds for Monday and for Sunday
HoursInputs ==
  {Undefined, Null, Str("siempre"), Num(7), Arr(<<>>)}
  \cup {Obj([day \in {d \in {"monday", "sunday"} : raw[d] # Undefined}
               |-> raw[day]]) :
          raw \in [{"monday", "sunday"} -> RawDays]}

\* the local of the owner as the backend holds it
ProfileOf(latitude, longitude, hours) ==
  Obj([id |-> Num(1), latitude |-> latitude, longitude |-> longitude,
       opening_hours |-> hours])

\* the profile page of a signed-in owner before it is opened
LocalClosed ==
  /\ users = [u \in Usernames |-> Str("cafeteria")]
  /\ API_BASE_URL = DefaultBase
  /\ SignedIn("ana")
  /\ OrdersIdle
  /\ WalletIdle
  /\ CatalogClosed
  /\ LoyaltyIdle
  /\ PanelsIdle

\* the location form, for the coordinates the backend holds
InitLocation ==
  /\ LocalClosed
  /\ \E la, lo \in StoredCoordinates :
       backend = [profile |-> ProfileOf(la, lo, Null)]

NextLocation ==
  \/ LocalMount
  \/ LocalDataSettle
  \/ LocationChange
  \/ LocationSubmit
  \/ LocalSaveSettle

SpecLocation == InitLocation /\ [][NextLocation]_vars

\* the schedule form, for the opening hours the backend holds
InitHours ==
  /\ LocalClosed
  /\ \E hours \in HoursInputs :
       backend = [profile |-> ProfileOf(Null, Null, hours)]

NextHours ==
  \/ LocalMount
  \/ LocalDataSettle
  \/ HourChange
  \/ ScheduleSubmit
  \/ LocalSaveSettle

SpecHours == InitHours /\ [][NextHours]_vars

\* the loyalty page of a signed-in owner
InitLoyalty ==
  /\ users = [u \in Usernames |-> Str("cafeteria")]
  /\ API_BASE_URL = DefaultBase
  /\ \E u \in Usernames : SignedIn(u)
  /\ PagesIdle

NextLoyalty ==
  \/ LoyaltyMount
  \/ LoyaltySession
  \/ LoyaltySelectLocal
  \/ LoyaltyLocalsSettle
  \/ LoyaltyFetchSettle
  \/ AdjustChange
  \/ AdjustSubmit
  \/ AdjustSettle

SpecLoyalty == InitLoyalty /\ [][NextLoyalty]_vars

\* the dashboard of a session whose user carries any role, or of no session
InitDashboard ==
  /\ API_BASE_URL = DefaultBase
  /\ PagesIdle
  /\ \/ \E u \in Usernames, role \in RoleValues :
          /\ users = [n \in Usernames |->
                        IF n = u THEN role ELSE Str("cafeteria")]
          /\ SignedIn(u)
     \/ /\ users = [n \in Usernames |-> Str("cafeteria")]
        /\ hydrated = TRUE /\ loading = FALSE /\ error = Null
        /\ tokens = Null /\ user = Null /\ storage = Null
        /\ router = <<>> /\ pc = "idle" /\ caller = "none"
        /\ payload = NoPayload /\ tokenResponse = Undefined
        /\ localError = Null /\ call = NoCall /\ result = NoCall

NextDashboard == RenderLayout \/ RenderPage \/ SetSidebar

SpecDashboard == InitDashboard /\ [][NextDashboard]_vars

-----------------------------------------------------------------------------
(* Helpers of the properties *)

Last(s) == s[Len(s)]

ClientePath == <<"/", "c", "l", "i", "e", "n", "t", "e">>
DashboardPath == <<"/", "d", "a", "s", "h", "b", "o", "a", "r", "d">>

\* a step in which the request login or register was waiting for is answered
\* and the answer is a rejection of the helper's promise
RejectedStep(path) ==
  /\ pc # "idle"
  /\ call.path = path
  /\ call.response = Pending
  /\ result' # NoCall
  /\ result'.settled.kind = "reject"

-----------------------------------------------------------------------------
(* C1 *)

\* C1: with login, register, logout and reload run one after another, after
\* every operation the storage key holds a snapshot exactly when the
\* in-memory tokens are non-null, and then the snapshot's tokens and user are
\* the in-memory tokens and user (as JSON keeps them: a property whose value
\* is undefined is the same as no property).
C1_StorageMirrorsSession ==
  (hydrated /\ pc = "idle") =>
    /\ (storage # Null) <=> (tokens # Null)
    /\ (tokens # Null) =>
         /\ IsJsonText(storage)
         /\ DOMAIN storage.jsontext.obj = {"tokens", "user"}
         /\ storage.jsontext.obj.tokens = JSONvalue(tokens)
         /\ storage.jsontext.obj.user = JSONvalue(user)
         /\ accessToken # Null

\* a reload has restored a session with a loaded profile
C1_Witness ==
  /\ hydrated
  /\ pc = "idle"
  /\ router = <<>>
  /\ tokens = TokensFor("bob")
  /\ Get(user, "role") = Str("cafeteria")

-----------------------------------------------------------------------------
(* C2 *)

\* C2: logout, in whatever state it is called, leaves tokens null
\* (accessToken null), user null, the storage key absent, and pushes "/".
C2_LogoutClearsSession ==
  [][Logout =>
       /\ tokens' = Null
       /\ accessToken' = Null
       /\ user' = Null
       /\ storage' = Null
       /\ Len(router') = Len(router) + 1
       /\ Last(router') = Home]_vars

\* logout was called while the profile request of a login was in flight
C2_Witness ==
  /\ pc = "profile"
  /\ router # <<>>
  /\ Last(router) = Home
  /\ tokens = Null
  /\ storage = Null

-----------------------------------------------------------------------------
(* C3 *)

IsSnapshotText(s) ==
  /\ IsJsonText(s)
  /\ IsObj(s.jsontext)
  /\ DOMAIN s.jsontext.obj = {"tokens", "user"}

\* C3: the mount effect runs once per mount; loading is true until it has
\* run and false right after; a stored value that is not a snapshot is
\* removed and leaves tokens and user null; no stored value leaves them null.
C3_HydrationDiscardsNonSnapshot ==
  /\ [](~hydrated => loading)
  /\ [][~hydrated' => loading']_vars
  /\ [][(~hydrated /\ hydrated') =>
          /\ ~loading'
          /\ (storage = Null) =>
               (tokens' = Null /\ user' = Null /\ storage' = Null)
          /\ (storage # Null /\ ~IsSnapshotText(storage)) =>
               (tokens' = Null /\ user' = Null /\ storage' = Null)]_vars

-----------------------------------------------------------------------------
(* C4 *)

\* C4: when the token request of login fails, tokens, user and the stored
\* snapshot are what they were, error is a message, loading is false, nothing
\* is pushed to the router, and the caller sees the error (the page that
\* awaited the call records it in localError).
C4_FailedLoginKeepsSession ==
  [][RejectedStep(TokenPath) =>
       /\ UNCHANGED <<tokens, user, storage, router>>
       /\ error' # Null
       /\ ~loading'
       /\ pc' = "idle"
       /\ localError' # Null]_vars

\* a login failed while an earlier session was in memory, and that session
\* is still there
C4_Witness ==
  /\ pc = "idle"
  /\ call # NoCall
  /\ call.path = TokenPath
  /\ result # NoCall
  /\ result.settled.kind = "reject"
  /\ tokens = TokensFor("ana")
  /\ storage # Null
  /\ localError # Null

-----------------------------------------------------------------------------
(* C5 *)

\* C5: after a successful token request login pushes "/cliente" exactly when
\* the role of the logged-in user is "cliente", and "/dashboard" otherwise,
\* whatever the answer to the profile request.
C5_ClienteLandsOnWallet ==
  [][(pc = "profile" /\ pc' = "idle" /\ hydrated') =>
       /\ Len(router') = Len(router) + 1
       /\ (Last(router') = ClientePath) <=>
            (users[payload.username] = Str("cliente"))
       /\ (Last(router') = DashboardPath) <=>
            (users[payload.username] # Str("cliente"))]_vars

-----------------------------------------------------------------------------
(* C6 *)

\* the body of the request the helper sends for the call in progress
SentBody == RequestInit(call.options).body.jsontext

\* C6: register sends POST /api/users/ with the role defaulting to "cliente";
\* the token request of login follows, with the same username and password,
\* only in the step in which the creation succeeded; when the creation fails
\* no token request is made, the session is unchanged, error is set, loading
\* is false and the page sees the error.
C6_RegisterCreatesThenLogsIn ==
  /\ [](pc = "create" =>
          /\ call.path = UsersPath
          /\ RequestInit(call.options).method = Str("POST")
          /\ Get(SentBody, "username") = Str(payload.username)
          /\ Get(SentBody, "password") = Str(payload.password)
          /\ Get(SentBody, "role") =
               (IF payload.role = Undefined THEN Str("cliente")
                ELSE payload.role))
  /\ []((pc = "token" /\ caller = "register") =>
          /\ call.path = TokenPath
          /\ RequestInit(call.options).method = Str("POST")
          /\ SentBody = Obj([username |-> Str(payload.username),
                             password |-> Str(payload.password)])
          /\ users[payload.username] # Undefined)
  /\ [][(pc' = "token" /\ caller' = "register" /\ pc # "token") =>
          /\ pc = "create"
          /\ users[payload.username] = Undefined
          /\ users'[payload.username] = Get(SentBody, "role")
          /\ payload' = payload]_vars
  /\ [][RejectedStep(UsersPath) /\ pc = "create" =>
          /\ UNCHANGED <<tokens, user, storage, router, users>>
          /\ pc' = "idle"
          /\ call'.path = UsersPath
          /\ error' # Null
          /\ ~loading'
          /\ localError' # Null]_vars

\* a registration without a role has created a "cliente" and is now waiting
\* for the token request
C6_Witness ==
  /\ pc = "token"
  /\ caller = "register"
  /\ payload.role = Undefined
  /\ users[payload.username] = Str("cliente")
  /\ payload.username = "bob"

-----------------------------------------------------------------------------
(* C7 *)

\* a call of the helper has been made and answered
Answered == call # NoCall /\ call.response \notin {Pending, NetworkFailure}

\* what a reader of the body finds: the parsed JSON, or else the text
BodyDetails(body) ==
  CASE body.kind = "json" -> body.value
    [] body.kind = "text" -> Str(body.text)
    [] OTHER -> Str("")

\* C7: for every response that is not ok, whatever its body, apiFetch rejects
\* with an ApiError carrying the response status and, as details, the parsed
\* JSON body or else the body text.
C7_NotOkRejectsWithApiError ==
  (Answered /\ ~call.response.ok) =>
    /\ result.settled.kind = "reject"
    /\ result.settled.error.name = "ApiError"
    /\ result.settled.error.status = call.response.status
    /\ result.settled.error.details = BodyDetails(call.response.body)

-----------------------------------------------------------------------------
(* C8 *)

SentHeaders == result.request.init.headers

IsNonEmptyString(v) == DOMAIN v = {"str"} /\ v.str # ""

\* C8 as stated: an Authorization header is sent exactly when options.token
\* is a non-empty string, and is then "Bearer " followed by the token.
C8_AuthorizationIffToken ==
  (call # NoCall) =>
    /\ ("Authorization" \in DOMAIN SentHeaders)
         <=> IsNonEmptyString(call.options.token)
    /\ IsNonEmptyString(call.options.token) =>
         SentHeaders["Authorization"] = "Bearer " \o call.options.token.str

\* the Authorization entry the caller passed in options.headers, if any
PassedAuthorization ==
  IF call.options.headers # Undefined
     /\ "Authorization" \in DOMAIN call.options.headers.obj
  THEN {call.options.headers.obj["Authorization"]} ELSE {}

\* C8 amended: with a non-empty token the Authorization entry handed to fetch
\* is "Bearer " followed by the token, replacing an Authorization entry of
\* options.headers; with token null, undefined or empty the helper adds none,
\* and the entry is the one of options.headers, if there is one.
C8_HelperSetsBearerOnlyForToken ==
  (call # NoCall) =>
    /\ IsNonEmptyString(call.options.token) =>
         /\ "Authorization" \in DOMAIN SentHeaders
         /\ SentHeaders["Authorization"] = "Bearer " \o call.options.token.str
    /\ ~IsNonEmptyString(call.options.token) =>
         {SentHeaders[k] : k \in DOMAIN SentHeaders \cap {"Authorization"}}
           = PassedAuthorization

\* a token replaced the Authorization entry the caller passed
C8_Witness ==
  /\ call # NoCall
  /\ call.options.token = Str("tokA")
  /\ PassedAuthorization = {"Basic abc"}
  /\ SentHeaders["Authorization"] = "Bearer tokA"

-----------------------------------------------------------------------------
(* C9 *)

DropLastSlash(s) ==
  IF s # <<>> /\ Last(s) = "/" THEN SubSeq(s, 1, Len(s) - 1) ELSE s
DropFirstSlash(s) ==
  IF s # <<>> /\ Head(s) = "/" THEN Tail(s) ELSE s

BeginsWithHttp(s) ==
  Len(s) >= 4 /\ s[1] = "h" /\ s[2] = "t" /\ s[3] = "t" /\ s[4] = "p"

-----------------------------------------------------------------------------
(* C10 *)

\* C10: a body is sent, JSON-serialised and with Content-Type
\* application/json, exactly when options.body is not undefined (null, false
\* and 0 are sent); the method is GET when none is given; an ok response
\* resolves to its parsed JSON body, and a 204 resolves to undefined with the
\* body left unread.
C10_BodyMethodAndResult ==
  (call # NoCall) =>
    LET sent == result.request.init
        passedContentType ==
          IF call.options.headers # Undefined
             /\ "Content-Type" \in DOMAIN call.options.headers.obj
          THEN {call.options.headers.obj["Content-Type"]} ELSE {}
    IN  /\ (sent.body # Undefined) <=> (call.options.body # Undefined)
        /\ (call.options.body # Undefined) =>
             /\ sent.body = [jsontext |-> call.options.body]
             /\ "Content-Type" \in DOMAIN sent.headers
             /\ sent.headers["Content-Type"] = "application/json"
        /\ (call.options.body = Undefined) =>
             {sent.headers[k] : k \in DOMAIN sent.headers \cap {"Content-Type"}}
               = passedContentType
        /\ sent.method = (IF call.options.method = Undefined
                          THEN Str("GET") ELSE call.options.method)
        /\ (Answered /\ call.response.ok) =>
             IF call.response.status = 204
             THEN /\ result.settled.kind = "resolve"
                  /\ result.settled.value = Undefined
                  /\ ~result.settled.response.bodyUsed
             ELSE (call.response.body.kind = "json") =>
                    /\ result.settled.kind = "resolve"
                    /\ result.settled.value = call.response.body.value

\* false was sent as a body with the default method, and the answer was a 204
C10_Witness ==
  /\ call # NoCall
  /\ call.options.body = Bool(FALSE)
  /\ call.options.method = Undefined
  /\ result.request.init.body = [jsontext |-> Bool(FALSE)]
  /\ result.request.init.method = Str("GET")
  /\ call.response # NetworkFailure
  /\ call.response.status = 204
  /\ result.settled.value = Undefined

-----------------------------------------------------------------------------
(* The orders console *)

\* C11: at most one polling interval timer is set at any time, whatever the
\* filter changes, session changes and unmounts; a timer that is set has the
\* period of 30000 ms, is the one pollRef holds, belongs to a mounted page
\* and exists only while there is an access token.
C11_AtMostOnePollingTimer ==
  /\ Cardinality(timers) <= 1
  /\ \A t \in timers :
       /\ t.ms = 30000
       /\ ordersPage.mounted
       /\ ordersPage.pollRef = Num(t.id)
       /\ Truthy(accessToken)

\* the timer was armed again after a filter changed
C11_Witness ==
  /\ \E t \in timers : t.id = 2
  /\ ordersPage.statusFilter = "completado"
  /\ ordersPage.sinceMinutes = 60

\* the status changes the claim allows
AllowedTransitions ==
  {<<"pendiente", "preparando">>, <<"pendiente", "cancelado">>,
   <<"preparando", "listo">>, <<"preparando", "cancelado">>,
   <<"listo", "completado">>, <<"listo", "cancelado">>}

\* the statuses a status button of an order shown with status s asks for
Successors(s) ==
  {NEXT_STATUS_OPTIONS[s][k] : k \in DOMAIN NEXT_STATUS_OPTIONS[s]}

\* the sequences of n + 1 statuses in which each one is offered for the one
\* before it
Chains(n) ==
  {q \in [1..(n + 1) -> DOMAIN NEXT_STATUS_OPTIONS] :
     \A i \in 1..n : q[i + 1] \in Successors(q[i])}

\* C15: a status request that leaves the page is for an order the page
\* shows, and goes from the status shown to one of the allowed successors
\* (none for completado and cancelado); the offered successors form no
\* chain of more than three status changes, so they have no cycle.
C15_OnlyAllowedTransitions ==
  /\ Chains(4) = {}
  /\ \A s \in DOMAIN NEXT_STATUS_OPTIONS :
       \A t \in Successors(s) : <<s, t>> \in AllowedTransitions
  /\ [][(Len(inflight') > Len(inflight) /\ Last(inflight').kind = "update")
          => LET r == Last(inflight')
             IN  /\ r.order \in DOMAIN ordersPage.orders.rows
                 /\ ordersPage.orders.rows[r.order] = r.shown
                 /\ <<r.shown, r.status>> \in AllowedTransitions]_vars

\* a request to complete an order shown as listo is in flight, and a chain
\* of three status changes exists
C15_Witness ==
  /\ \E i \in DOMAIN inflight :
       /\ inflight[i].kind = "update"
       /\ inflight[i].shown = "listo"
       /\ inflight[i].status = "completado"
  /\ Chains(3) # {}

\* C16: whenever the page shows its orders to a signed-in user, no request
\* is in flight and the last fetch did not fail, the orders and the summary
\* shown are the answers to the requests built from the local, status filter
\* and time window selected now.
C16_DisplayedMatchesFilters ==
  (/\ OrdersControls
   /\ Truthy(accessToken)
   /\ inflight = <<>>
   /\ ordersPage.error = Null
   /\ ordersPage.summary # Null)
  => LET now == Closure(ordersPage, accessToken).filters
     IN  /\ ordersPage.orders.url = ordersUrl(now)
         /\ ordersPage.summary.url = summaryUrl(now)

-----------------------------------------------------------------------------
(* The wallet's catalog groups *)

\* the position of a product in the catalog
PositionIn(products, product) ==
  CHOOSE i \in DOMAIN products : products[i] = product

\* the first position in the catalog of a product of a category
FirstOf(products, categoryId) ==
  CHOOSE i \in DOMAIN products :
    /\ products[i].category = categoryId
    /\ \A j \in 1..(i - 1) : products[j].category # categoryId

\* C13: the groups rendered for a catalog partition it: every product is in
\* exactly one group, once, and the groups hold nothing else; the products
\* of a group have the category id of the group; the products without
\* category are in a group named 'Sin categoria'; no two groups have the
\* same category id; groups come in the order of first occurrence of their
\* category, and the items of a group in the order of the catalog.
C13_GroupsPartitionCatalog ==
  (groups # NotRendered /\ Truthy(catalog)) =>
    LET G == groups.arr
        P == catalog.arr
    IN  /\ \A i \in DOMAIN P :
             Cardinality({gj \in (DOMAIN G) \X (1..Len(P)) :
                            /\ gj[2] \in DOMAIN G[gj[1]].items
                            /\ G[gj[1]].items[gj[2]] = P[i]}) = 1
        /\ \A g \in DOMAIN G :
             /\ G[g].items # <<>>
             /\ \A j \in DOMAIN G[g].items :
                  /\ \E i \in DOMAIN P : P[i] = G[g].items[j]
                  /\ G[g].items[j].category = G[g].categoryId
                  /\ \A k \in DOMAIN G[g].items :
                       j < k => PositionIn(P, G[g].items[j])
                                  < PositionIn(P, G[g].items[k])
             /\ G[g].categoryId = Null
                  => G[g].categoryName = Str("Sin categoria")
             /\ \A h \in DOMAIN G :
                  g < h => /\ G[g].categoryId # G[h].categoryId
                           /\ FirstOf(P, G[g].categoryId)
                                < FirstOf(P, G[h].categoryId)

\* a catalog of four products was grouped into three groups: one of two
\* products that are not adjacent in the catalog, one without category, and
\* two groups whose categories have the same name
C13_Witness ==
  /\ groups # NotRendered
  /\ Truthy(catalog)
  /\ Len(catalog.arr) = 4
  /\ Len(groups.arr) = 3
  /\ catalog.arr[1].category = catalog.arr[3].category
  /\ \E g \in DOMAIN groups.arr : groups.arr[g].categoryId = Null
  /\ \E g, h \in DOMAIN groups.arr :
       g # h /\ groups.arr[g].categoryName = groups.arr[h].categoryName
-----------------------------------------------------------------------------
(* The table of the catalog page *)

\* two strings of the same length that differ at most by the case of letters
SameLetters(a, b) ==
  /\ Len(a) = Len(b)
  /\ \A i \in DOMAIN a :
       \/ a[i] = b[i]
       \/ \E c \in DOMAIN Capitals : {a[i], b[i]} = {c, Capitals[c]}

\* text contains term, ignoring case
ContainsIgnoringCase(text, term) ==
  \E i \in 1..(Len(text) - Len(term) + 1) :
    SameLetters(SubSeq(text, i, i + Len(term) - 1), term)

\* t is s without the white space around it
IsTrimOf(t, s) ==
  \E i, j \in 0..Len(s) :
    /\ i + j <= Len(s)
    /\ t = SubSeq(s, i + 1, Len(s) - j)
    /\ \A k \in 1..i : s[k] = " "
    /\ \A k \in (Len(s) - j + 1)..Len(s) : s[k] = " "
    /\ t = <<>> \/ (t[1] # " " /\ t[Len(t)] # " ")

\* the table shows this product under the filters of page p
Wanted(product, p) ==
  /\ \E k \in DOMAIN p.locals :
       /\ p.locals[k].id = product.local
       /\ p.locals[k].owner_name = Get(user, "username")
  /\ p.stockFilter = "critical" =>
       product.tracks_stock /\ product.stock_state = "critical"
  /\ p.categoryFilter # Str("all") =>
       p.categoryFilter = Num(product.category)
  /\ \A term \in {SubSeq(p.searchTerm, a, b) :
                     a \in 1..(Len(p.searchTerm) + 1),
                     b \in 0..Len(p.searchTerm)} :
       (IsTrimOf(term, p.searchTerm) /\ term # <<>>) =>
         \/ ContainsIgnoringCase(product.name, term)
         \/ /\ product.description # Null
            /\ ContainsIgnoringCase(product.description.str, term)

\* C12: while the table is shown its rows are exactly the products of the
\* user's own locals that pass every active filter (critical stock, the
\* category, the trimmed search term found in the name or the description
\* whatever the case), each once, and with the three filters cleared the rows
\* are the visible products
C12_RowsAreTheFilteredOwnProducts ==
  CatalogControls =>
    LET rows == filteredProducts(catalogPage, visibleProducts)
        wanted == {catalogPage.products[k] :
                     k \in {n \in DOMAIN catalogPage.products :
                        Wanted(catalogPage.products[n], catalogPage)}}
    IN  /\ {rows[i] : i \in DOMAIN rows} = wanted
        /\ Len(rows) = Cardinality(wanted)
        /\ (/\ catalogPage.stockFilter = "all"
            /\ catalogPage.categoryFilter = Str("all")
            /\ catalogPage.searchTerm = <<>>) => rows = visibleProducts

\* the three filters are active at once, the search term has white space and
\* capitals, and the table shows some of the visible products but not all
C12_Witness ==
  /\ CatalogControls
  /\ catalogPage.stockFilter = "critical"
  /\ catalogPage.categoryFilter # Str("all")
  /\ catalogPage.searchTerm = <<" ", "L", "A", " ">>
  /\ filteredProducts(catalogPage, visibleProducts) # <<>>
  /\ Len(filteredProducts(catalogPage, visibleProducts))
       < Len(criticalProducts(visibleProducts))

\* C19: the visible products are sorted: the products of a category are
\* contiguous and ordered by display_order and then by name, and the
\* categories follow one another by name
C19_VisibleProductsSorted ==
  CatalogControls =>
    \A i, j \in DOMAIN visibleProducts :
      i < j =>
        /\ visibleProducts[i].category = visibleProducts[j].category =>
             /\ \A k \in i..j :
                  visibleProducts[k].category = visibleProducts[i].category
             /\ \/ visibleProducts[i].display_order
                      < visibleProducts[j].display_order
                \/ /\ visibleProducts[i].display_order
                        = visibleProducts[j].display_order
                   /\ localeCompare(visibleProducts[i].name,
                                    visibleProducts[j].name) <= 0
        /\ localeCompare(visibleProducts[i].category_name,
                         visibleProducts[j].category_name) <= 0

-----------------------------------------------------------------------------
(* The writes of the catalog page *)

\* the step answers a request of one of these kinds and sends nothing
Settles(kinds) ==
  \E i \in DOMAIN inflight :
    inflight[i].kind \in kinds /\ inflight' = RemoveAt(inflight, i)

RefreshFailed == Str("No pudimos actualizar la lista de productos.")

\* C14: the page changes its products list only by replacing it with the
\* list GET /api/products/ answered, which a refresh that succeeds always
\* does; a step that reports a failure (of a write, of the refresh, of the
\* load) leaves the list as it was
C14_ProductsOnlyFromServer ==
  [][/\ catalogPage'.products # catalogPage.products =>
          /\ Settles({"load", "refresh"})
          /\ catalogPage'.products = backend.products
     /\ (Settles({"refresh"}) /\ catalogPage'.error # RefreshFailed) =>
          catalogPage'.products = backend.products
     /\ (catalogPage'.error # catalogPage.error
           /\ catalogPage'.error # Null) =>
          catalogPage'.products = catalogPage.products]_vars

\* every write has been answered and refreshed, and the table shows for
\* product 1 a stock and a label that the backend set after the load
C14_Witness ==
  /\ CatalogControls
  /\ inflight = <<>>
  /\ catalogPage.products = backend.products
  /\ \E k \in DOMAIN catalogPage.products :
       /\ catalogPage.products[k].id = 1
       /\ catalogPage.products[k].stock = 0
       /\ catalogPage.products[k].stock_state = "out"
       /\ ~catalogPage.products[k].is_active

\* C17: every create or update request the form has sent carries a local
\* of the signed-in user
C17_SavesCarryOwnLocal ==
  \A i \in DOMAIN inflight :
    inflight[i].kind = "save" =>
      \E k \in DOMAIN backend.locals :
        /\ backend.locals[k].owner_name = Get(user, "username")
        /\ Num(backend.locals[k].id) = inflight[i].body.local

\* the step sends a create or update request of the form
SaveSent ==
  Len(inflight') > Len(inflight) /\ Last(inflight').kind = "save"

StartsWithInteger(s) ==
  LET digits == IF s # <<>> /\ Head(s) \in {"-", "+"} THEN Tail(s) ELSE s
  IN  digits # <<>> /\ IsDigits(<<Head(digits)>>)

\* the step adds an adjustment to the requests that await their answer
AdjustSent ==
  /\ Len(inflight') = Len(inflight) + 1
  /\ inflight'[Len(inflight')].kind = "adjust"

\* C20: the loyalty page sends an adjustment only for a selected local, a
\* username that is not empty once trimmed and a delta that parses to an
\* integer, and with these in its body; a submission that sends nothing
\* sends no request at all and shows a feedback message; a successful
\* answer empties the form and requests the data again, a failed one
\* leaves the form as it is, and after either adjusting is false
C20_AdjustOnlyWhenComplete ==
  [][/\ AdjustSent =>
          /\ loyaltyPage.selectedLocalId # Str("all")
          /\ Trim(loyaltyPage.adjustForm.username) # <<>>
          /\ StartsWithInteger(loyaltyPage.adjustForm.delta)
          /\ inflight'[Len(inflight')].body.local
               = loyaltyPage.selectedLocalId
          /\ inflight'[Len(inflight')].body.username
               = Trim(loyaltyPage.adjustForm.username)
          /\ inflight'[Len(inflight')].body.delta # NaN
     /\ AdjustSubmit /\ ~AdjustSent =>
          /\ inflight' = inflight
          /\ requestsSent' = requestsSent
          /\ loyaltyPage'.adjustFeedback
               \in {Str("Selecciona un local para ajustar puntos."),
                    Str("Completa usuario y puntos a ajustar.")}
     /\ AdjustSettle =>
          /\ ~loyaltyPage'.adjusting
          /\ IF loyaltyPage'.adjustFeedback
                  = Str("Puntos actualizados correctamente.")
             THEN /\ loyaltyPage'.adjustForm
                       = [username |-> <<>>, delta |-> <<>>]
                  /\ Len(inflight') = Len(inflight)
                  /\ inflight'[Len(inflight')].kind = "points"
             ELSE /\ loyaltyPage'.adjustForm = loyaltyPage.adjustForm
                  /\ loyaltyPage'.adjustFeedback # Null
                  /\ Len(inflight') = Len(inflight) - 1]_vars

\* an adjustment for a selected local was accepted: the form is empty, the
\* data are requested again and adjusting is over
C20_Witness ==
  /\ LoyaltyControls
  /\ loyaltyPage.selectedLocalId = Num(1)
  /\ loyaltyPage.adjustFeedback = Str("Puntos actualizados correctamente.")
  /\ loyaltyPage.adjustForm = [username |-> <<>>, delta |-> <<>>]
  /\ ~loyaltyPage.adjusting
  /\ loyaltyPage.refreshing
  /\ \E i \in DOMAIN inflight : inflight[i].kind = "points"

\* C21: once the shell and the page of the dashboard are both rendered,
\* for any role of the user (none, or a string that names no role), the
\* page shows the panel of a configuration, both role labels are texts and
\* the two labels are the same
C21_SameDefinedRole ==
  (dashboard.layout # NotRendered /\ dashboard.page # NotRendered
   /\ Truthy(user))
  => /\ dashboard.page.panel = "dashboard"
     /\ IsObj(dashboard.page.config)
     /\ DOMAIN dashboard.page.roleLabel = {"str"}
     /\ DOMAIN dashboard.layout.roleLabel = {"str"}
     /\ DOMAIN dashboard.layout.sectionNavigation = {"str"}
     /\ dashboard.page.roleLabel = dashboard.layout.roleLabel

\* user, tokens and the storage key are cleared, as logout leaves them
SessionCleared == user = Null /\ tokens = Null /\ storage = Null

\* C22: a cleared session stays cleared until login or register is called
\* again: with no operation of the provider in progress every step other
\* than such a call leaves it cleared, and when logout has cleared it
\* while the profile request of a login was in flight, the end of that
\* request leaves it cleared too
C22_LogoutStaysCleared ==
  [][/\ (SessionCleared /\ pc = "idle" /\ pc' = "idle") => SessionCleared'
     /\ (SessionCleared /\ pc = "profile") => SessionCleared']_vars

\* the stock the backend stores for a product
StoredStock(store, id) ==
  LET k == CHOOSE n \in DOMAIN store.products : store.products[n].id = id
  IN  store.products[k].stock

\* C23: no stock adjustment is lost: when the backend accepts the request
\* of a click on '+' or '-', the stock it stores for the product changes by
\* the delta of that click, so that after k clicks whose requests succeed it
\* is the initial stock plus the sum of the k deltas
C23_StockAdjustmentsNotLost ==
  [][\A i \in DOMAIN inflight :
       (/\ inflight[i].kind = "patch"
        /\ "stock" \in DOMAIN inflight[i].body
        /\ inflight' = Append(RemoveAt(inflight, i),
                              [kind |-> "refresh", after |-> "patch"]))
       => StoredStock(backend', inflight[i].id.num)
            - StoredStock(backend, inflight[i].id.num)
          = inflight[i].body.stock.num - inflight[i].product.stock]_vars

\* C24: on the orders page no two status requests for the same order are
\* in flight at the same time, whatever happens to the other orders
C24_OneStatusRequestPerOrder ==
  \A i, j \in DOMAIN inflight :
    (i # j /\ inflight[i].kind = "update" /\ inflight[j].kind = "update")
    => inflight[i].order # inflight[j].order
\* C25: on the wallet page, no two catalog requests for the same local
\* await their answer at the same time
C25_OneCatalogRequestPerLocal ==
  \A i, j \in DOMAIN inflight :
    (/\ i # j
     /\ inflight[i].kind = "catalog"
     /\ inflight[j].kind = "catalog")
      => inflight[i].local # inflight[j].local

\* C26: on the wallet page, the toggle of the menu of an expanded local
\* leaves the local collapsed
C26_ToggleCollapses ==
  [][\A localId \in Ids(WalletLocalPool) :
       (WalletToggle(localId) /\ localId \in Expanded(walletPage))
         => localId \notin Expanded(walletPage')]_vars

\* C27: on the wallet page, the value the user chooses in the selector is
\* the selected local after the choice
C27_ChoiceStaysSelected ==
  [][\A choice \in {Str("all")}
                    \cup {Num(id) : id \in Ids(WalletLocalPool)} :
       WalletSelect(choice) => walletPage'.selectedLocalId = choice]_vars

\* the requests of a kind that await their answer
Awaiting(kind) == {i \in DOMAIN inflight : inflight[i].kind = kind}

\* the page, when open, shows neither its loading nor its refreshing state
FlagsDown(p) == p.mounted => (~p.loading /\ ~p.refreshing)

\* a page that awaits no answer to a fetch has both flags down
SettledFlags ==
  /\ Awaiting("wallet") = {} => FlagsDown(walletPage)
  /\ Awaiting("fetch") = {} => FlagsDown(ordersPage)
  /\ Awaiting("points") = {} => FlagsDown(loyaltyPage)

\* a bound on the requests the answers still to come can lead to: a request
\* counts with the requests its answer can send, and the wallet with the
\* requests of its one automatic selection
FetchRank ==
  (IF walletPage.mounted /\ walletPage.selectedLocalId = Str("all")
   THEN 5 ELSE 0)
  + Cardinality(Awaiting("wallet")) + Cardinality(Awaiting("catalog"))
  + Cardinality(Awaiting("fetch")) + Cardinality(Awaiting("points"))
  + 2 * Cardinality(Awaiting("update"))
  + 3 * Cardinality(Awaiting("locals"))

\* a page is opened without a user or without an access token
OpenedWithoutSession ==
  /\ ~Truthy(user) \/ ~Truthy(accessToken)
  /\ WalletMount \/ OrdersMount \/ LoyaltyMount

Coordinate(text) ==
  IF Trim(text) = <<>> \/ Number(Trim(text)) = NaN THEN Null
  ELSE Number(Trim(text))

\* C29: the location form sends null for a latitude or longitude field that
\* is blank or not a number, and the number for a field that holds one
C29_BlankOrInvalidIsNull ==
  [][(LocationSubmit /\ Len(inflight') > Len(inflight)) =>
       LET sent == inflight'[Len(inflight')].body
       IN  /\ sent.latitude = Coordinate(localPage.locationForm.latitude)
           /\ sent.longitude = Coordinate(localPage.locationForm.longitude)
    ]_vars

\* a text that is not empty
ValidText(v) == IsStr(v) /\ v # Str("")

\* the week days
WeekDays == {WEEK_DAYS[i] : i \in DOMAIN WEEK_DAYS}

\* the hours have an entry for each week day, with a non-empty text open, a
\* non-empty text close and a boolean closed
HoursComplete(hours) ==
  /\ IsObj(hours)
  /\ DOMAIN hours.obj = WeekDays
  /\ \A day \in WeekDays :
       /\ ValidText(Get(hours.obj[day], "open"))
       /\ ValidText(Get(hours.obj[day], "close"))
       /\ IsBool(Get(hours.obj[day], "closed"))

\* open and close of each day are those of the value where it holds a
\* non-empty text, and the default ones elsewhere
TextsTaken(value, hours) ==
  \A day \in WeekDays, field \in {"open", "close"} :
    Get(hours.obj[day], field) =
      IF ValidText(Get(Get(value, day), field))
      THEN Get(Get(value, day), field)
      ELSE Get(buildDefaultOpeningHours.obj[day], field)

\* closed of each day is that of the value where it holds a boolean, and the
\* default one elsewhere
ClosedOrDefault(value, hours) ==
  \A day \in WeekDays :
    Get(hours.obj[day], "closed") =
      IF IsBool(Get(Get(value, day), "closed"))
      THEN Get(Get(value, day), "closed")
      ELSE Get(buildDefaultOpeningHours.obj[day], "closed")

\* closed of each day is the default one where the value holds no object
\* for the day, and else whether what the object holds as closed is truthy
ClosedOrTruthy(value, hours) ==
  \A day \in WeekDays :
    Get(hours.obj[day], "closed") =
      IF IsObj(Get(value, day))
      THEN Bool(Truthy(Get(Get(value, day), "closed")))
      ELSE Get(buildDefaultOpeningHours.obj[day], "closed")

\* the labels of the week from Monday to Sunday
MondayToSunday ==
  <<"Lunes", "Martes", "Miércoles", "Jueves", "Viernes", "Sábado",
    "Domingo">>

\* the summary lists the seven days from Monday to Sunday and shows
\* 'Cerrado' for the closed days and for no other
SummaryFollows(hours) ==
  LET summary == buildScheduleSummary(hours)
  IN  /\ Len(summary) = 13
      /\ \A i \in 1..7 :
           /\ summary[2 * i - 1][1] = MondayToSunday[i]
           /\ summary[2 * i - 1][2] = ": Cerrado"
                <=> Get(hours.obj[WEEK_DAYS[i]], "closed") = Bool(TRUE)

\* the page took a local from an answer of the backend and normalized its
\* opening hours
HoursTaken == LocalDataAnswer(TRUE) \/ LocalSaveAnswer(TRUE)

\* C30 as stated: the normalized hours are complete, take the default for
\* each missing or invalid field, closed included, are their own normal
\* form, and their summary follows them
C30_DefaultForEveryField ==
  [][HoursTaken =>
       LET value == Get(localPage'.activeLocal, "opening_hours")
           hours == normalizeOpeningHours(value)
       IN  /\ localPage'.openingHours = hours
           /\ HoursComplete(hours)
           /\ TextsTaken(value, hours)
           /\ ClosedOrDefault(value, hours)
           /\ normalizeOpeningHours(hours) = hours
           /\ SummaryFollows(hours)]_vars

\* C30: the normalized hours are complete, take the default for each
\* missing or invalid open and close and for closed where the day is
\* missing, take whether the value is truthy for a closed that is not a
\* boolean, are their own normal form, and their summary follows them
C30_HoursNormalized ==
  [][HoursTaken =>
       LET value == Get(localPage'.activeLocal, "opening_hours")
           hours == normalizeOpeningHours(value)
       IN  /\ localPage'.openingHours = hours
           /\ HoursComplete(hours)
           /\ TextsTaken(value, hours)
           /\ ClosedOrTruthy(value, hours)
           /\ normalizeOpeningHours(hours) = hours
           /\ SummaryFollows(hours)]_vars

\* the backend holds hours for Sunday without a closed mark, and the page
\* shows Sunday as open
C30_Witness ==
  /\ Truthy(localPage.activeLocal)
  /\ Get(Get(localPage.activeLocal, "opening_hours"), "sunday")
       = Obj([open |-> Str("10:00"), close |-> Str("14:00")])
  /\ localPage.openingHours.obj["sunday"] = DayHours("10:00", "14:00", FALSE)

====
